---- MODULE Spec2Model ----
(***************************************************************************)
(* Model of the FinOps automation lambdas.                                 *)
(*                                                                         *)
(*   Spec        the cleanup executor (cleanup-executor/lambda_function.py):*)
(*               one invocation of lambda_handler over the pending actions *)
(*               of the action table, one step per external call.          *)
(*   SpecStore   update_action_status of the cleanup executor, called any  *)
(*               number of times with any results.                         *)
(*   SpecAnomaly detect_anomalies of the cost analyzer                     *)
(*               (cost-analyzer/lambda_function.py) on a daily cost series.*)
(*   SpecDeviation  detect_anomalies on series with a steady, non-zero     *)
(*               baseline and a wider range of evaluation-day costs.       *)
(*   SpecTags    check_resource_compliance of the tag enforcer             *)
(*               (tag-enforcer/lambda_function.py) on a tag set and a rule *)
(*               list.                                                     *)
(*   SpecScan    one invocation of lambda_handler of the resource scanner  *)
(*               (resource-scanner/lambda_function.py) over an account,    *)
(*               one step per external call.                               *)
(*   SpecBuckets check_s3_tags of the tag enforcer over the buckets of an  *)
(*               account, one step per external call.                      *)
(*   SpecKeys    one invocation of the cleanup executor over actions whose *)
(*               ids may not begin with their scheduled date.              *)
(*   SpecRetry   invocations of the cleanup executor one after another,    *)
(*               each ended by a return, a raise or a kill of the process. *)
(*   SpecRace    two overlapping invocations of the cleanup executor over  *)
(*               the same action table.                                    *)
(*                                                                         *)
(* Strings the code builds with f-strings are modelled as tuples of their  *)
(* parts (<<"[DRY RUN]", "Would stop instance", rid>>), an action id as    *)
(* the tuple of its hyphen-delimited components.                           *)
(***************************************************************************)
EXTENDS Integers, Sequences, FiniteSets, TLC

\* ---------------------------------------------------------------- bounds
NumActions == 2
MaxVolumes == 1
NumStored == 1
MaxCalls == 3
MaxDays == 9
MaxBaseline == 1
MaxVaried == 2

Actions == 1..NumActions
ErrTexts == {"ClientError"}

Min(a, b) == IF a < b THEN a ELSE b

\* ------------------------------------------------------ action records
ResourceTypes ==
    {"ec2_instance", "ebs_volume", "elastic_ip", "snapshot", "ami",
     "load_balancer", "rds_instance"}
ActionTypes ==
    {"stop", "terminate", "delete", "snapshot_and_delete", "release", "deregister"}

\* The (resource_type, action_type) pairs the upstream producer may enqueue:
\* every pair the executor routes to a handler, a resource type the executor
\* knows with an action type it does not test for (one for a type with two
\* handlers, one for a type with one), and a resource type it does not know.
Catalog ==
    {<<"ec2_instance", "stop">>, <<"ec2_instance", "terminate">>,
     <<"ebs_volume", "snapshot_and_delete">>, <<"ebs_volume", "delete">>,
     <<"elastic_ip", "release">>, <<"snapshot", "delete">>,
     <<"ami", "deregister">>, <<"load_balancer", "delete">>,
     <<"ec2_instance", "delete">>, <<"elastic_ip", "stop">>,
     <<"rds_instance", "stop">>}

ScheduledDate == <<"2024", "01", "15">>
WellFormedId(a) == ScheduledDate \o <<ToString(a)>>
\* an id that does not begin with the scheduled date
UndatedId(a) == <<"action", ToString(a)>>
ResourceId(a) == "res-" \o ToString(a)

NewAction(a, id, kind) ==
    [action_id |-> id, scheduled_date |-> ScheduledDate,
     resource_id |-> ResourceId(a),
     resource_type |-> kind[1], action_type |-> kind[2],
     status |-> "pending", executed_at |-> 0, result_message |-> <<>>]

VARIABLES
    dryRun,     \* DRY_RUN, read from the environment when the module loads
    store,      \* the action table: (action_id, scheduled_date) -> item
    clock,      \* datetime.now()
    pass,       \* number of lambda_handler invocations started
    pc,         \* position of the running lambda_handler
    policies,   \* the document load_cleanup_policies returned
    pending,    \* pending_actions of the running pass
    idx,        \* position of the for loop in pending_actions
    result,     \* the result dict of the action being executed
    results,    \* results = {executed, failed, skipped}
    calls,      \* the external calls the running pass issued, in order
    bdmLeft,    \* block device mappings terminate_ec2_instance has left
    published,  \* sns.publish of the running pass succeeded
    \* calls of update_action_status one after another (SpecStore)
    nCalls,     \* number of calls made
    prevResult, \* the result passed to the call before the last one
    prevStore,  \* the table as the call before the last one left it
    addressed,  \* the keys a returned call has addressed
    \* detect_anomalies (SpecAnomaly)
    daily_costs,    \* cost_data['daily_costs'], the costs in date order
    dpc,            \* position of detect_anomalies
    baseline_avg,   \* <<sum, count>> of the baseline costs
    evaluated,      \* the days (positions in daily_costs) evaluated so far
    anomalies,      \* the list detect_anomalies builds
    anomalyTable,   \* the items save_anomaly has put
    raised,         \* the exception detect_anomalies ended with
    \* check_resource_compliance of the tag enforcer (SpecTags)
    tags,           \* the tag dict of the resource: key -> value
    required_tags,  \* policies['required_tags'], the rule list
    compliance,     \* the dict check_resource_compliance returned
    tpc,            \* position of the tag check
    \* lambda_handler of the resource scanner (SpecScan)
    account,        \* the resources of the account, by kind
    spc,            \* position of the scan: the external call it issues next
    kindIdx,        \* position of the handler in the scans of the kinds
    inventory,      \* the response of the listing call of the running scan
    rpos,           \* position of the for loop in the listing
    tgpos,          \* position of the loop over the target groups
    found,          \* the list the running scan builds
    idle_resources, \* idle_resources of the handler, by kind
    idleTable,      \* the idle-resource table: the items put, by key
    sampled,        \* the metric lookups made: (resource id, outcome)
    faults,         \* the external calls that failed: (kind, api, resource id)
    \* check_s3_tags of the tag enforcer (SpecBuckets)
    buckets,        \* the buckets of the account: name -> the tags attached
    bpc,            \* position of check_s3_tags
    bpos,           \* position of the for loop in response['Buckets']
    resources,      \* results['resources']
    s3calls,        \* the calls check_s3_tags issued: (api, bucket, outcome)
    complianceTable,\* the compliance table: the items put, by key
    \* the other invocations of the cleanup executor (SpecRetry, SpecRace)
    earlier,        \* the invocations that ended before the running one
    suspended       \* the invocation that overlaps the running one

executorVars == <<dryRun, pass, pc, policies, pending, idx, results, calls,
                  bdmLeft, published>>
callVars == <<nCalls, prevResult, prevStore, addressed>>
detectorVars == <<daily_costs, dpc, baseline_avg, evaluated, anomalies,
                  anomalyTable, raised>>
tagVars == <<tags, required_tags, compliance, tpc>>
scanVars == <<account, spc, kindIdx, inventory, rpos, tgpos, found,
              idle_resources, idleTable, sampled, faults>>
bucketVars == <<buckets, bpc, bpos, resources, s3calls, complianceTable>>
passVars == <<earlier, suspended>>
vars == <<store, clock, result, executorVars, callVars, detectorVars,
          tagVars, scanVars, bucketVars, passVars>>

NoResult == [action_id |-> <<>>, resource_id |-> "", resource_type |-> "",
             action_type |-> "", success |-> FALSE, skipped |-> FALSE,
             message |-> <<>>]
EmptyResults == [executed |-> <<>>, failed |-> <<>>, skipped |-> <<>>]
NoPolicies == [cleanup_rules |-> "none", dry_run |-> TRUE]

\* ----------------------------------------------------------- the store
RECURSIVE SetToSeq(_)
SetToSeq(S) ==
    IF S = {} THEN <<>>
    ELSE LET x == CHOOSE y \in S : TRUE IN <<x>> \o SetToSeq(S \ {x})

\* table.query(IndexName='StatusIndex', ... ':status': 'pending')['Items'];
\* the code does not ask for an order, the model lists the items in a fixed one
QueryPending(st) ==
    LET keys == {k \in DOMAIN st : st[k].status = "pending"}
        ks == SetToSeq(keys)
    IN [i \in 1..Len(ks) |-> st[ks[i]]]

\* mutant: the update is conditional on the item being pending
update_item_if_pending(st, key, status, executed, message) ==
    IF key \in DOMAIN st /\ st[key].status # "pending" THEN st
    ELSE IF key \in DOMAIN st
    THEN [st EXCEPT ![key] = [@ EXCEPT !.status = status,
                                        !.executed_at = executed,
                                        !.result_message = message]]
    ELSE st @@ (key :> [action_id |-> key[1], scheduled_date |-> key[2],
                        status |-> status, executed_at |-> executed,
                        result_message |-> message])

\* table.update_item(Key=..., 'SET #status = :status, executed_at = :executed,
\* result_message = :message'): an update of the item, or its creation
update_item(st, key, status, executed, message) ==
    IF key \in DOMAIN st
    THEN [st EXCEPT ![key] = [@ EXCEPT !.status = status,
                                        !.executed_at = executed,
                                        !.result_message = message]]
    ELSE st @@ (key :> [action_id |-> key[1], scheduled_date |-> key[2],
                        status |-> status, executed_at |-> executed,
                        result_message |-> message])

\* mutant: an action that did not succeed keeps its status for a retry
StatusOfKeepsPending(res) ==
    IF res.skipped THEN "skipped"
    ELSE IF res.success THEN "completed" ELSE "pending"

\* status = 'completed' if result['success'] else 'failed';
\* if result.get('skipped'): status = 'skipped'
StatusOf(res) ==
    IF res.skipped THEN "skipped"
    ELSE IF res.success THEN "completed" ELSE "failed"

\* parts = action_id.split('-'); '-'.join(parts[:3])
ParsedDate(action_id) == SubSeq(action_id, 1, Min(3, Len(action_id)))

\* --------------------------------------------------------------- Init
\* the table holding one pending action per element of S
InitStore(S, ids, kinds) ==
    store = [k \in {<<ids[a], ScheduledDate>> : a \in S} |->
               LET a == CHOOSE b \in S : ids[b] = k[1]
               IN NewAction(a, k[1], kinds[a])]

ExecutorIdle ==
    /\ pass = 0
    /\ pc = "idle"
    /\ policies = NoPolicies
    /\ pending = <<>>
    /\ idx = 1
    /\ results = EmptyResults
    /\ calls = <<>>
    /\ bdmLeft = 0
    /\ published = FALSE

CallsIdle ==
    /\ nCalls = 0
    /\ prevResult = NoResult
    /\ prevStore = <<>>
    /\ addressed = {}

NoCompliance == [compliant |-> FALSE, missing_tags |-> <<>>, invalid_tags |-> <<>>]

TagsIdle ==
    /\ tags = <<>>
    /\ required_tags = <<>>
    /\ compliance = NoCompliance
    /\ tpc = "idle"

ScannerIdle ==
    /\ account = <<>>
    /\ spc = "idle"
    /\ kindIdx = 0
    /\ inventory = <<>>
    /\ rpos = 0
    /\ tgpos = 0
    /\ found = <<>>
    /\ idle_resources = <<>>
    /\ idleTable = <<>>
    /\ sampled = {}
    /\ faults = {}

BucketsIdle ==
    /\ buckets = <<>>
    /\ bpc = "idle"
    /\ bpos = 0
    /\ resources = <<>>
    /\ s3calls = <<>>
    /\ complianceTable = <<>>

PassesIdle ==
    /\ earlier = <<>>
    /\ suspended = <<>>

DetectorIdle ==
    /\ daily_costs = <<>>
    /\ dpc = "idle"
    /\ baseline_avg = <<0, 0>>
    /\ evaluated = <<>>
    /\ anomalies = <<>>
    /\ anomalyTable = <<>>
    /\ raised = "none"

Init ==
    /\ dryRun \in BOOLEAN
    /\ \E kinds \in [Actions -> Catalog] :
          InitStore(Actions, [a \in Actions |-> WellFormedId(a)], kinds)
    /\ clock = 0
    /\ result = NoResult
    /\ ExecutorIdle
    /\ CallsIdle
    /\ BucketsIdle
    /\ PassesIdle
    /\ TagsIdle
    /\ ScannerIdle
    /\ DetectorIdle

\* ------------------------------------------------- result messages
DryRunMessage(what, rid) == <<"[DRY RUN]", what, rid>>
SuccessMessage(what, rid) == <<what, rid>>
FailureMessage(what, err) == <<what, err>>

\* the dispatch of execute_cleanup_action: the handler a pair is routed to,
\* "none" for a known resource type whose if/elif chain matches no action
\* type, "unsupported" for the final else
Handler(resource_type, action_type) ==
    IF resource_type = "ec2_instance" THEN
        IF action_type = "stop" THEN "stop_ec2_instance"
        ELSE IF action_type = "terminate" THEN "terminate_ec2_instance"
        ELSE "none"
    ELSE IF resource_type = "ebs_volume" THEN
        IF action_type = "snapshot_and_delete" THEN "snapshot_and_delete_volume"
        ELSE IF action_type = "delete" THEN "delete_volume"
        ELSE "none"
    ELSE IF resource_type = "elastic_ip" THEN
        IF action_type = "release" THEN "release_elastic_ip" ELSE "none"
    ELSE IF resource_type = "snapshot" THEN
        IF action_type = "delete" THEN "delete_snapshot" ELSE "none"
    ELSE IF resource_type = "ami" THEN
        IF action_type = "deregister" THEN "deregister_ami" ELSE "none"
    ELSE IF resource_type = "load_balancer" THEN
        IF action_type = "delete" THEN "delete_load_balancer" ELSE "none"
    ELSE "unsupported"

Handlers ==
    {"stop_ec2_instance", "terminate_ec2_instance", "snapshot_and_delete_volume",
     "delete_volume", "release_elastic_ip", "delete_snapshot", "deregister_ami",
     "delete_load_balancer"}

\* the text of each handler's messages
WouldText ==
    [stop_ec2_instance |-> "Would stop instance",
     terminate_ec2_instance |-> "Would terminate instance",
     snapshot_and_delete_volume |-> "Would snapshot and delete volume",
     delete_volume |-> "Would delete volume",
     release_elastic_ip |-> "Would release Elastic IP",
     delete_snapshot |-> "Would delete snapshot",
     deregister_ami |-> "Would deregister AMI",
     delete_load_balancer |-> "Would delete load balancer"]
DoneText ==
    [stop_ec2_instance |-> "Successfully stopped instance",
     terminate_ec2_instance |-> "Successfully terminated instance",
     snapshot_and_delete_volume |-> "and deleted volume",
     delete_volume |-> "Successfully deleted volume",
     release_elastic_ip |-> "Successfully released Elastic IP",
     delete_snapshot |-> "Successfully deleted snapshot",
     deregister_ami |-> "Successfully deregistered AMI",
     delete_load_balancer |-> "Successfully deleted load balancer"]
FailedText ==
    [stop_ec2_instance |-> "Failed to stop instance:",
     terminate_ec2_instance |-> "Failed to terminate instance:",
     snapshot_and_delete_volume |-> "Failed to snapshot/delete volume:",
     delete_volume |-> "Failed to delete volume:",
     release_elastic_ip |-> "Failed to release Elastic IP:",
     delete_snapshot |-> "Failed to delete snapshot:",
     deregister_ami |-> "Failed to deregister AMI:",
     delete_load_balancer |-> "Failed to delete load balancer:"]

\* the mutating call of each handler that issues exactly one external call
MutatingCall ==
    [stop_ec2_instance |-> "stop_instances",
     delete_volume |-> "delete_volume",
     release_elastic_ip |-> "release_address",
     delete_snapshot |-> "delete_snapshot",
     deregister_ami |-> "deregister_image",
     delete_load_balancer |-> "delete_load_balancer"]

\* where a handler's live branch starts
FirstCall(h) ==
    IF h = "terminate_ec2_instance" THEN "describe_instances"
    ELSE IF h = "snapshot_and_delete_volume" THEN "create_snapshot"
    ELSE "call"

CurrentHandler == Handler(result.resource_type, result.action_type)
VolumeOf(instance_id, k) == instance_id \o "/vol-" \o ToString(k)
SnapshotOf(volume_id) == "snap-" \o volume_id

\* an external call of the pass: the action it was issued for and its
\* position in pending_actions, the API, the resource it names (the status,
\* for update_item), its outcome ("ok" or the text of the exception it raised)
\* and, for describe_instances, the number of EBS block device mappings it
\* returned
Call(api, target, outcome) ==
    [action_id |-> result.action_id, position |-> idx, api |-> api,
     target |-> target, outcome |-> outcome, volumes |-> 0]

\* mutant: terminate_ec2_instance lacks the DRY_RUN test
IsDryRunExceptTerminate(h) == dryRun /\ h # "terminate_ec2_instance"

\* mutant: the dry_run field of the loaded policy document gates the call too
IsDryRunByPolicy(h) == dryRun \/ policies.dry_run

\* `if DRY_RUN:` at the head of every handler
IsDryRun(h) == dryRun

\* --------------------------------------------------- lambda_handler
\* an invocation of lambda_handler:
\* results = {'executed': [], 'failed': [], 'skipped': []}
StartPass ==
    /\ pc = "idle"
    /\ pass' = pass + 1
    /\ pc' = "load"
    /\ pending' = <<>>
    /\ idx' = 1
    /\ result' = NoResult
    /\ results' = EmptyResults
    /\ calls' = <<>>
    /\ bdmLeft' = 0
    /\ published' = FALSE
    /\ policies' = NoPolicies
    /\ UNCHANGED <<callVars, detectorVars, bucketVars, passVars, tagVars, scanVars, dryRun, store, clock>>

\* the documents the parameter store may hold
PolicyDocuments == {[cleanup_rules |-> "rules", dry_run |-> FALSE]}

\* load_cleanup_policies: the stored document, or the fallback when
\* ssm.get_parameter or json.loads raises
load_cleanup_policies ==
    /\ pc = "load"
    /\ \/ policies' \in PolicyDocuments
       \/ policies' = [cleanup_rules |-> "none", dry_run |-> TRUE]
    /\ pc' = "query"
    /\ UNCHANGED <<callVars, detectorVars, bucketVars, passVars, tagVars, scanVars, dryRun, store, clock, pass, pending, idx, result, results,
                   calls, bdmLeft, published>>

\* mutant: the query marks the items it lists as executing
get_pending_cleanup_actions_claiming ==
    /\ pc = "query"
    /\ pending' = QueryPending(store)
    /\ store' = [key \in DOMAIN store |->
                    IF store[key].status = "pending"
                    THEN [store[key] EXCEPT !.status = "executing"]
                    ELSE store[key]]
    /\ idx' = 1
    /\ pc' = "loop"
    /\ UNCHANGED <<callVars, detectorVars, bucketVars, passVars, tagVars, scanVars, dryRun, clock, pass, policies, result, results,
                   calls, bdmLeft, published>>

\* get_pending_cleanup_actions: the pending items, or [] when the query raises
get_pending_cleanup_actions ==
    /\ pc = "query"
    /\ \/ pending' = QueryPending(store)
       \/ pending' = <<>>
    /\ idx' = 1
    /\ pc' = "loop"
    /\ UNCHANGED <<callVars, detectorVars, bucketVars, passVars, tagVars, scanVars, dryRun, store, clock, pass, policies, result, results,
                   calls, bdmLeft, published>>

\* the result dict execute_cleanup_action starts from
FreshResult(action) ==
    [action_id |-> action.action_id, resource_id |-> action.resource_id,
     resource_type |-> action.resource_type, action_type |-> action.action_type,
     success |-> FALSE, skipped |-> FALSE, message |-> <<>>]

\* mutant: an unsupported resource type counts as a success as well
UnsupportedResultAsSuccess(res) ==
    [res EXCEPT !.success = TRUE, !.skipped = TRUE,
                !.message = <<"Unsupported resource type:", res.resource_type>>]

\* the else branch of the dispatch
UnsupportedResult(res) ==
    [res EXCEPT !.skipped = TRUE,
                !.message = <<"Unsupported resource type:", res.resource_type>>]

\* mutant: a simulated action is not reported as a success
DryRunResultNotSuccess(h, res) ==
    [res EXCEPT !.message = DryRunMessage(WouldText[h], res.resource_id)]

\* the DRY_RUN branch of a handler
DryRunResult(h, res) ==
    [res EXCEPT !.success = TRUE,
                !.message = DryRunMessage(WouldText[h], res.resource_id)]

\* execute_cleanup_action up to the first external call of the handler
execute_cleanup_action ==
    /\ pc = "loop"
    /\ idx <= Len(pending)
    /\ LET action == pending[idx]
           res == FreshResult(action)
           h == Handler(action.resource_type, action.action_type)
       IN \/ /\ h \in Handlers
             /\ IsDryRun(h)
             /\ result' = DryRunResult(h, res)
             /\ pc' = "update"
          \/ /\ h \in Handlers
             /\ ~IsDryRun(h)
             /\ result' = res
             /\ pc' = FirstCall(h)
          \/ /\ h = "none"
             /\ result' = res
             /\ pc' = "update"
          \/ /\ h = "unsupported"
             /\ result' = UnsupportedResult(res)
             /\ pc' = "update"
    /\ UNCHANGED <<callVars, detectorVars, bucketVars, passVars, tagVars, scanVars, dryRun, store, clock, pass, policies, pending, idx, results,
                   calls, bdmLeft, published>>

\* mutant: the except branch drops the text of the exception
FailedWithoutText(h, res, err) == [res EXCEPT !.message = <<FailedText[h]>>]

\* the try/except of a handler's live branch around one call
Succeeded(res, message) == [res EXCEPT !.success = TRUE, !.message = message]
Failed(h, res, err) == [res EXCEPT !.message = FailureMessage(FailedText[h], err)]

\* the live branch of stop_ec2_instance, delete_volume, release_elastic_ip,
\* delete_snapshot, deregister_ami and delete_load_balancer: one mutating call
SingleCall(h) ==
    /\ pc = "call"
    /\ CurrentHandler = h
    /\ \/ /\ calls' = Append(calls, Call(MutatingCall[h], result.resource_id, "ok"))
          /\ result' = Succeeded(result, SuccessMessage(DoneText[h], result.resource_id))
       \/ \E err \in ErrTexts :
          /\ calls' = Append(calls, Call(MutatingCall[h], result.resource_id, err))
          /\ result' = Failed(h, result, err)
    /\ pc' = "update"
    /\ UNCHANGED <<callVars, detectorVars, bucketVars, passVars, tagVars, scanVars, dryRun, store, clock, pass, policies, pending, idx, results,
                   bdmLeft, published>>

stop_ec2_instance == SingleCall("stop_ec2_instance")
delete_volume == SingleCall("delete_volume")
release_elastic_ip == SingleCall("release_elastic_ip")
delete_snapshot == SingleCall("delete_snapshot")
deregister_ami == SingleCall("deregister_ami")
delete_load_balancer == SingleCall("delete_load_balancer")

\* terminate_ec2_instance, live: describe_instances and the instance's
\* block device mappings that carry an 'Ebs' entry; the call raising and
\* response['Reservations'][0] raising both end in the except branch
terminate_describe ==
    /\ pc = "describe_instances"
    /\ \/ \E n \in 0..MaxVolumes :
          /\ calls' = Append(calls,
                 [Call("describe_instances", result.resource_id, "ok")
                    EXCEPT !.volumes = n])
          /\ bdmLeft' = n
          /\ result' = result
          /\ pc' = IF n > 0 THEN "snapshot_bdm" ELSE "terminate_instances"
       \/ \E err \in ErrTexts :
          /\ calls' = Append(calls, Call("describe_instances", result.resource_id, err))
          /\ bdmLeft' = 0
          /\ result' = Failed("terminate_ec2_instance", result, err)
          /\ pc' = "update"
    /\ UNCHANGED <<callVars, detectorVars, bucketVars, passVars, tagVars, scanVars, dryRun, store, clock, pass, policies, pending, idx, results,
                   published>>

\* what follows ec2.create_snapshot in the loop over the block device mappings
AfterBdmSnapshot(left) == IF left > 0 THEN "snapshot_bdm" ELSE "terminate_instances"

\* terminate_ec2_instance, live: ec2.create_snapshot of one attached volume
terminate_snapshot ==
    /\ pc = "snapshot_bdm"
    /\ bdmLeft > 0
    /\ LET volume_id == VolumeOf(result.resource_id, bdmLeft)
       IN \/ /\ calls' = Append(calls, Call("create_snapshot", volume_id, "ok"))
             /\ bdmLeft' = bdmLeft - 1
             /\ result' = result
             /\ pc' = AfterBdmSnapshot(bdmLeft - 1)
          \/ \E err \in ErrTexts :
             /\ calls' = Append(calls, Call("create_snapshot", volume_id, err))
             /\ bdmLeft' = 0
             /\ result' = Failed("terminate_ec2_instance", result, err)
             /\ pc' = "update"
    /\ UNCHANGED <<callVars, detectorVars, bucketVars, passVars, tagVars, scanVars, dryRun, store, clock, pass, policies, pending, idx, results,
                   published>>

\* terminate_ec2_instance, live: ec2.terminate_instances
terminate_ec2_instance ==
    /\ pc = "terminate_instances"
    /\ \/ /\ calls' = Append(calls, Call("terminate_instances", result.resource_id, "ok"))
          /\ result' = Succeeded(result,
                 SuccessMessage(DoneText["terminate_ec2_instance"], result.resource_id))
       \/ \E err \in ErrTexts :
          /\ calls' = Append(calls, Call("terminate_instances", result.resource_id, err))
          /\ result' = Failed("terminate_ec2_instance", result, err)
    /\ pc' = "update"
    /\ UNCHANGED <<callVars, detectorVars, bucketVars, passVars, tagVars, scanVars, dryRun, store, clock, pass, policies, pending, idx, results,
                   bdmLeft, published>>

\* what follows a step of snapshot_and_delete_volume that returned
AfterCreateSnapshot == "wait_snapshot"
AfterWait == "delete_snapshotted_volume"

\* snapshot_and_delete_volume, live: ec2.create_snapshot
snapshot_create ==
    /\ pc = "create_snapshot"
    /\ \/ /\ calls' = Append(calls, Call("create_snapshot", result.resource_id, "ok"))
          /\ result' = result
          /\ pc' = AfterCreateSnapshot
       \/ \E err \in ErrTexts :
          /\ calls' = Append(calls, Call("create_snapshot", result.resource_id, err))
          /\ result' = Failed("snapshot_and_delete_volume", result, err)
          /\ pc' = "update"
    /\ UNCHANGED <<callVars, detectorVars, bucketVars, passVars, tagVars, scanVars, dryRun, store, clock, pass, policies, pending, idx, results,
                   bdmLeft, published>>

\* mutant: a failure of the waiter is swallowed and the volume is deleted
snapshot_wait_unchecked ==
    /\ pc = "wait_snapshot"
    /\ \E outcome \in {"ok"} \cup ErrTexts :
          calls' = Append(calls, Call("wait_snapshot_completed",
                                      SnapshotOf(result.resource_id), outcome))
    /\ pc' = "delete_snapshotted_volume"
    /\ UNCHANGED <<callVars, detectorVars, bucketVars, passVars, tagVars, scanVars, dryRun, store, clock, pass, policies, pending, idx, result,
                   results, bdmLeft, published>>

\* snapshot_and_delete_volume, live: the snapshot_completed waiter
snapshot_wait ==
    /\ pc = "wait_snapshot"
    /\ LET snapshot_id == SnapshotOf(result.resource_id)
       IN \/ /\ calls' = Append(calls, Call("wait_snapshot_completed", snapshot_id, "ok"))
             /\ result' = result
             /\ pc' = AfterWait
          \/ \E err \in ErrTexts :
             /\ calls' = Append(calls, Call("wait_snapshot_completed", snapshot_id, err))
             /\ result' = Failed("snapshot_and_delete_volume", result, err)
             /\ pc' = "update"
    /\ UNCHANGED <<callVars, detectorVars, bucketVars, passVars, tagVars, scanVars, dryRun, store, clock, pass, policies, pending, idx, results,
                   bdmLeft, published>>

\* snapshot_and_delete_volume, live: ec2.delete_volume
snapshot_and_delete_volume ==
    /\ pc = "delete_snapshotted_volume"
    /\ \/ /\ calls' = Append(calls, Call("delete_volume", result.resource_id, "ok"))
          /\ result' = Succeeded(result,
                 <<"Snapshotted", SnapshotOf(result.resource_id),
                   DoneText["snapshot_and_delete_volume"], result.resource_id>>)
       \/ \E err \in ErrTexts :
          /\ calls' = Append(calls, Call("delete_volume", result.resource_id, err))
          /\ result' = Failed("snapshot_and_delete_volume", result, err)
    /\ pc' = "update"
    /\ UNCHANGED <<callVars, detectorVars, bucketVars, passVars, tagVars, scanVars, dryRun, store, clock, pass, policies, pending, idx, results,
                   bdmLeft, published>>

\* datetime.now() of the next status write: later than that of the write
\* before it (microsecond resolution, a network round trip per write)
Now == clock + 1

\* mutant: the key is built from the scheduled date of the stored actions
KeyOfScheduled(action_id) == <<action_id, ScheduledDate>>

\* the key update_action_status addresses
KeyOf(action_id) == <<action_id, ParsedDate(action_id)>>

\* the table after update_action_status(action_id, result) returned at `now`
update_status(st, action_id, res, now) ==
    update_item(st, KeyOf(action_id), StatusOf(res), now, res.message)

\* the list of results a result is appended to
ListOf(res) ==
    IF res.success THEN "executed"
    ELSE IF res.skipped THEN "skipped" ELSE "failed"

\* the body of the for loop after execute_cleanup_action returned res
Collect(res) ==
    /\ results' = [results EXCEPT ![ListOf(res)] = Append(@, res)]
    /\ idx' = idx + 1
    /\ pc' = "loop"

\* mutant: the status is not written when the action has been executed
update_action_status_deferred ==
    /\ pc = "update"
    /\ Collect(result)
    /\ UNCHANGED <<callVars, detectorVars, bucketVars, passVars, tagVars, scanVars, dryRun, store, clock, pass, policies,
                   pending, result, calls, bdmLeft, published>>

\* update_action_status, called at the end of the try block of
\* execute_cleanup_action (`except Exception as e: result['message'] = str(e)`
\* when table.update_item raises), the return of execute_cleanup_action and
\* the rest of the loop body
update_action_status ==
    /\ pc = "update"
    /\ \/ /\ store' = update_status(store, result.action_id, result, Now)
          /\ clock' = Now
          /\ calls' = Append(calls, Call("update_item", StatusOf(result), "ok"))
          /\ result' = result
       \/ \E err \in ErrTexts :
          /\ calls' = Append(calls, Call("update_item", StatusOf(result), err))
          /\ result' = [result EXCEPT !.message = <<err>>]
          /\ UNCHANGED <<store, clock>>
    /\ Collect(result')
    /\ UNCHANGED <<callVars, detectorVars, bucketVars, passVars, tagVars, scanVars, dryRun, pass, policies, pending,
                   bdmLeft, published>>

\* mutant: the summary is sent for executed actions only
SummaryDueExecutedOnly(rs) == rs.executed # <<>>

\* if results['executed'] or results['failed']
SummaryDue(rs) == rs.executed # <<>> \/ rs.failed # <<>>

\* the end of the pass: send_cleanup_summary (sns.publish returns, or raises
\* and the handler re-raises) and the return
send_cleanup_summary ==
    /\ pc = "loop"
    /\ idx > Len(pending)
    /\ \/ /\ SummaryDue(results)
          /\ \/ published' = TRUE /\ pc' = "done"
             \/ published' = FALSE /\ pc' = "raised"
       \/ /\ ~SummaryDue(results)
          /\ published' = FALSE
          /\ pc' = "done"
    /\ UNCHANGED <<callVars, detectorVars, bucketVars, passVars, tagVars, scanVars, dryRun, store, clock, pass, policies, pending, idx, result,
                   results, calls, bdmLeft>>

Next ==
    \/ StartPass
    \/ load_cleanup_policies
    \/ get_pending_cleanup_actions
    \/ execute_cleanup_action
    \/ stop_ec2_instance
    \/ terminate_describe
    \/ terminate_snapshot
    \/ terminate_ec2_instance
    \/ snapshot_create
    \/ snapshot_wait
    \/ snapshot_and_delete_volume
    \/ delete_volume
    \/ release_elastic_ip
    \/ delete_snapshot
    \/ deregister_ami
    \/ delete_load_balancer
    \/ update_action_status
    \/ send_cleanup_summary

Spec == Init /\ [][Next]_vars

\* =====================================================================
\* update_action_status called any number of times (SpecStore)
\* =====================================================================
Stored == 1..NumStored

\* the result dicts a caller may pass
ResultInputs(action_id) ==
    {[NoResult EXCEPT !.action_id = action_id, !.success = su, !.skipped = sk,
                      !.message = m] :
        su \in BOOLEAN, sk \in BOOLEAN, m \in {<<"first">>, <<"second">>}}

InitCalls ==
    /\ dryRun = TRUE
    /\ \E ids \in [Stored -> {"dated", "undated"}] :
          InitStore(Stored,
                    [a \in Stored |-> IF ids[a] = "dated" THEN WellFormedId(a)
                                      ELSE UndatedId(a)],
                    [a \in Stored |-> <<"ec2_instance", "stop">>])
    /\ clock = 0
    /\ result = NoResult
    /\ ExecutorIdle
    /\ CallsIdle
    /\ BucketsIdle
    /\ PassesIdle
    /\ TagsIdle
    /\ ScannerIdle
    /\ DetectorIdle

\* update_action_status(action_id, result) returns
CallUpdate ==
    /\ nCalls < MaxCalls
    /\ \E id \in {WellFormedId(a) : a \in Stored} \cup {UndatedId(a) : a \in Stored} :
          /\ <<id, ScheduledDate>> \in DOMAIN store
          /\ \E res \in ResultInputs(id) :
                /\ store' = update_status(store, id, res, Now)
                /\ result' = res
                /\ addressed' = addressed \cup {KeyOf(id)}
    /\ clock' = Now
    /\ prevResult' = result
    /\ prevStore' = store
    /\ nCalls' = nCalls + 1
    /\ UNCHANGED <<executorVars, detectorVars, bucketVars, passVars, tagVars, scanVars>>

\* update_action_status raises: table.update_item failed and wrote nothing
CallUpdateRaises ==
    /\ nCalls < MaxCalls
    /\ nCalls' = nCalls + 1
    /\ UNCHANGED <<store, clock, result, executorVars, detectorVars, bucketVars, passVars, tagVars, scanVars,
                   prevResult, prevStore, addressed>>

NextCalls == CallUpdate \/ CallUpdateRaises

SpecStore == InitCalls /\ [][NextCalls]_vars

Terminal == {"completed", "failed", "skipped"}

\* C7: after every call of update_action_status, whatever the results passed,
\* the record the call addressed holds completed, failed or skipped, and it is
\* never pending again.
C7_NeverPendingAgain ==
    /\ \A k \in addressed : k \in DOMAIN store /\ store[k].status \in Terminal
    /\ result # NoResult => KeyOf(result.action_id) \in addressed

C7_Witness ==
    /\ nCalls = MaxCalls
    /\ prevResult # NoResult
    /\ prevResult.action_id = result.action_id
    /\ StatusOf(prevResult) = "completed"
    /\ StatusOf(result) = "failed"
    /\ store[KeyOf(result.action_id)].status = "failed"

\* C8: a second call of update_action_status for the same action id with the
\* same outcome leaves the record as the first call left it, in every field.
SameOutcomeTwice ==
    /\ prevResult # NoResult
    /\ prevResult.action_id = result.action_id
    /\ StatusOf(prevResult) = StatusOf(result)
    /\ prevResult.message = result.message

C8_SameOutcomeTwiceIsIdempotent ==
    SameOutcomeTwice =>
        store[KeyOf(result.action_id)] = prevStore[KeyOf(result.action_id)]

\* =====================================================================
\* detect_anomalies of the cost analyzer (SpecAnomaly)
\* =====================================================================
\* Costs are whole amounts and a quotient is the pair <<numerator,
\* denominator>>, so that the comparisons of the code are exact.
EvalWindow == 7
THRESHOLD_PERCENTAGE == 25
HighDeviation == 50
CostValues == {0, 100, 160}

Max(a, b) == IF a > b THEN a ELSE b
Abs(x) == IF x < 0 THEN -x ELSE x

RECURSIVE Sum(_)
Sum(costs) == IF costs = <<>> THEN 0 ELSE Head(costs) + Sum(Tail(costs))

\* daily_costs[:-7] and daily_costs[-7:]
AllButLast(costs, n) == SubSeq(costs, 1, Max(0, Len(costs) - n))
LastPositions(costs, n) == (Max(0, Len(costs) - n) + 1)..Len(costs)

\* ((day['cost'] - baseline_avg) / baseline_avg) * 100, baseline_avg = sum / count
Deviation(cost, avg) == <<(cost * avg[2] - avg[1]) * 100, avg[1]>>
\* abs(deviation) > limit, for a deviation over a positive sum
ExceedsOrEquals(deviation, limit) == Abs(deviation[1]) >= limit * deviation[2]
Exceeds(deviation, limit) == Abs(deviation[1]) > limit * deviation[2]

Anomaly(day, cost, avg) ==
    [date |-> day, cost |-> cost, baseline |-> avg,
     deviation_percentage |-> Deviation(cost, avg),
     severity |-> IF Exceeds(Deviation(cost, avg), HighDeviation)
                  THEN "high" ELSE "medium"]

\* the item save_anomaly puts
AnomalyItem(anomaly) ==
    [detected_date |-> anomaly.date, cost |-> anomaly.cost,
     baseline |-> anomaly.baseline,
     deviation_percentage |-> anomaly.deviation_percentage,
     severity |-> anomaly.severity, status |-> "new"]

InitAnomaly ==
    /\ dryRun = TRUE
    /\ store = <<>>
    /\ clock = 0
    /\ result = NoResult
    /\ ExecutorIdle
    /\ CallsIdle
    /\ BucketsIdle
    /\ PassesIdle
    /\ TagsIdle
    /\ ScannerIdle
    /\ daily_costs \in UNION {[1..n -> CostValues] : n \in 0..MaxDays}
    /\ dpc = "start"
    /\ baseline_avg = <<0, 0>>
    /\ evaluated = <<>>
    /\ anomalies = <<>>
    /\ anomalyTable = <<>>
    /\ raised = "none"

\* if len(daily_costs) < 7
TooShortOffByOne(costs) == Len(costs) < EvalWindow - 1
TooShort(costs) == Len(costs) < EvalWindow

\* detect_anomalies up to the loop: the length test and the baseline
detect_anomalies ==
    /\ dpc = "start"
    /\ IF TooShort(daily_costs)
       THEN /\ dpc' = "returned"
            /\ UNCHANGED <<baseline_avg, raised>>
       ELSE LET baseline_costs == AllButLast(daily_costs, EvalWindow) IN
            IF Len(baseline_costs) = 0
            THEN /\ dpc' = "raised"
                 /\ raised' = "ZeroDivisionError"
                 /\ UNCHANGED baseline_avg
            ELSE /\ dpc' = "loop"
                 /\ baseline_avg' = <<Sum(baseline_costs), Len(baseline_costs)>>
                 /\ UNCHANGED raised
    /\ UNCHANGED <<store, clock, result, executorVars, callVars, tagVars, scanVars, bucketVars, passVars, daily_costs,
                   evaluated, anomalies, anomalyTable>>

\* the days the loop has left
DaysLeft ==
    {d \in LastPositions(daily_costs, EvalWindow) :
        \A i \in 1..Len(evaluated) : evaluated[i] # d}

\* save_anomaly: one put_item, whose error is not caught
save_anomaly_swallowing(anomaly) ==
    \/ /\ anomalyTable' = Append(anomalyTable, AnomalyItem(anomaly))
       /\ UNCHANGED <<dpc, raised>>
    \/ UNCHANGED <<anomalyTable, dpc, raised>>
save_anomaly(anomaly) ==
    \/ /\ anomalyTable' = Append(anomalyTable, AnomalyItem(anomaly))
       /\ UNCHANGED <<dpc, raised>>
    \/ \E err \in ErrTexts :
          /\ dpc' = "raised"
          /\ raised' = err
          /\ UNCHANGED anomalyTable

\* one iteration of `for day in daily_costs[-7:]`, save_anomaly included
detect_day ==
    /\ dpc = "loop"
    /\ DaysLeft # {}
    /\ LET day == CHOOSE d \in DaysLeft : \A e \in DaysLeft : d <= e
           cost == daily_costs[day]
       IN /\ evaluated' = Append(evaluated, day)
          /\ IF baseline_avg[1] = 0
             THEN /\ dpc' = "raised"
                  /\ raised' = "ZeroDivisionError"
                  /\ UNCHANGED <<anomalies, anomalyTable>>
             ELSE IF Exceeds(Deviation(cost, baseline_avg), THRESHOLD_PERCENTAGE)
             THEN /\ anomalies' = Append(anomalies, Anomaly(day, cost, baseline_avg))
                  /\ save_anomaly(Anomaly(day, cost, baseline_avg))
             ELSE UNCHANGED <<dpc, raised, anomalies, anomalyTable>>
    /\ UNCHANGED <<store, clock, result, executorVars, callVars, tagVars, scanVars, bucketVars, passVars, daily_costs,
                   baseline_avg>>

\* return anomalies
detect_return ==
    /\ dpc = "loop"
    /\ DaysLeft = {}
    /\ dpc' = "returned"
    /\ UNCHANGED <<store, clock, result, executorVars, callVars, tagVars, scanVars, bucketVars, passVars, daily_costs,
                   baseline_avg, evaluated, anomalies, anomalyTable, raised>>

NextAnomaly == detect_anomalies \/ detect_day \/ detect_return

SpecAnomaly == InitAnomaly /\ [][NextAnomaly]_vars

\* ---------------------------------------------------------------------
\* detect_anomalies on series with a steady, non-zero baseline
\* (SpecDeviation): 1..MaxBaseline baseline days, then the 7 evaluation
\* days, of which at most MaxVaried leave the usual cost of 100.
BaselineCosts == {100, 200}
DeviationCosts == {0, 50, 75, 100, 120, 125, 130, 150, 160}

EvaluationWindow(varied, cost) ==
    [i \in 1..EvalWindow |-> IF i \in varied THEN cost[i] ELSE 100]

InitDeviation ==
    /\ dryRun = TRUE
    /\ store = <<>>
    /\ clock = 0
    /\ result = NoResult
    /\ ExecutorIdle
    /\ CallsIdle
    /\ BucketsIdle
    /\ PassesIdle
    /\ TagsIdle
    /\ ScannerIdle
    /\ \E n \in 1..MaxBaseline :
       \E baseline_costs \in [1..n -> BaselineCosts] :
       \E varied \in {S \in SUBSET (1..EvalWindow) : Cardinality(S) <= MaxVaried} :
       \E cost \in [varied -> DeviationCosts] :
          daily_costs = baseline_costs \o EvaluationWindow(varied, cost)
    /\ dpc = "start"
    /\ baseline_avg = <<0, 0>>
    /\ evaluated = <<>>
    /\ anomalies = <<>>
    /\ anomalyTable = <<>>
    /\ raised = "none"

SpecDeviation == InitDeviation /\ [][NextAnomaly]_vars

\* C10: for a series of N >= 7 days detect_anomalies does not raise, its
\* baseline is the mean of the first N - 7 days and it evaluates exactly the
\* last 7 days.
C10_SevenDaysOrMoreEvaluated ==
    Len(daily_costs) >= 7 =>
        /\ raised # "ZeroDivisionError"
        /\ dpc = "returned" =>
              /\ baseline_avg = <<Sum(SubSeq(daily_costs, 1, Len(daily_costs) - 7)),
                                  Len(daily_costs) - 7>>
              /\ evaluated = [i \in 1..7 |-> Len(daily_costs) - 7 + i]

\* the anomalies recorded for an evaluated day
AnomaliesOf(day) == {i \in 1..Len(anomalies) : anomalies[i].date = day}
ZeroBaseline ==
    /\ Len(daily_costs) > 7
    /\ Sum(SubSeq(daily_costs, 1, Len(daily_costs) - 7)) = 0

\* C11: with a baseline of 0 detect_anomalies does not raise; an evaluation
\* day of cost 0 is no anomaly and an evaluation day of non-zero cost is one.
C11_ZeroBaselineIsDefined ==
    ZeroBaseline =>
        /\ raised # "ZeroDivisionError"
        /\ \A i \in 1..Len(evaluated) :
              (daily_costs[evaluated[i]] # 0) <=> (AnomaliesOf(evaluated[i]) # {})

\* C12: with a non-zero baseline an evaluated day is an anomaly exactly when
\* |cost - baseline| / baseline * 100 > 25, upwards and downwards; it is high
\* exactly when that is > 50, else medium. With baseline 100: 160 is one high
\* anomaly, 130 and 150 (exactly 50%) one medium anomaly, 125 (exactly 25%),
\* 120 and 100 none.
BaselineSum == Sum(SubSeq(daily_costs, 1, Len(daily_costs) - 7))
BaselineDays == Len(daily_costs) - 7
\* |cost - sum / days| * 100, times days
Distance100(cost) == Abs(cost * BaselineDays - BaselineSum) * 100

C12_AnomalyIffBeyondThreshold ==
    (Len(daily_costs) > 7 /\ BaselineSum > 0) =>
        \A i \in 1..Len(evaluated) :
            LET day == evaluated[i]
                cost == daily_costs[day]
                hits == AnomaliesOf(day)
            IN /\ (hits # {}) <=> (Distance100(cost) > 25 * BaselineSum)
               /\ Cardinality(hits) <= 1
               /\ \A h \in hits :
                     /\ anomalies[h].cost = cost
                     /\ (anomalies[h].severity = "high") <=>
                            (Distance100(cost) > 50 * BaselineSum)
                     /\ anomalies[h].severity \in {"high", "medium"}
               /\ BaselineSum = 100 * BaselineDays =>
                     /\ cost = 160 =>
                           \E h \in hits : anomalies[h].severity = "high"
                     /\ cost \in {130, 150} =>
                           \E h \in hits : anomalies[h].severity = "medium"
                     /\ cost \in {100, 120, 125} => hits = {}

C12_Witness ==
    /\ dpc = "returned"
    /\ BaselineSum = 100 * BaselineDays
    /\ \E d \in 1..Len(evaluated) : daily_costs[evaluated[d]] = 125
    /\ \E d \in 1..Len(evaluated) : daily_costs[evaluated[d]] = 150
    /\ Len(anomalies) = 1
    /\ anomalies[1].severity = "medium"
    /\ anomalies[1].cost = 150

\* C13: for a series of fewer than 7 days detect_anomalies returns the empty
\* list, raises nothing and writes nothing to the anomaly table.
C13_ShortSeriesReturnsEmpty ==
    Len(daily_costs) < 7 =>
        /\ dpc \in {"start", "returned"}
        /\ raised = "none"
        /\ evaluated = <<>>
        /\ anomalies = <<>>
        /\ anomalyTable = <<>>

C13_Witness ==
    /\ Len(daily_costs) = 6
    /\ dpc = "returned"
    /\ anomalies = <<>>
    /\ \E i \in 1..6 : daily_costs[i] = 160
    /\ \E i \in 1..6 : daily_costs[i] = 100

\* C14: every anomaly detect_anomalies returns is in the anomaly table, one
\* record per anomalous day; when a put fails nothing is returned and the
\* records put before it stay.
RecordsOf(day) ==
    {r \in 1..Len(anomalyTable) : anomalyTable[r].detected_date = day}

C14_PersistedBeforeReturned ==
    /\ \A r \in 1..Len(anomalyTable) :
          /\ r <= Len(anomalies)
          /\ anomalyTable[r].detected_date = anomalies[r].date
          /\ anomalyTable[r].cost = anomalies[r].cost
          /\ anomalyTable[r].severity = anomalies[r].severity
          /\ anomalyTable[r].deviation_percentage = anomalies[r].deviation_percentage
    /\ dpc = "returned" =>
          /\ raised = "none"
          /\ Len(anomalyTable) = Len(anomalies)
          /\ \A i \in 1..Len(evaluated) :
                Cardinality(RecordsOf(evaluated[i])) =
                    IF AnomaliesOf(evaluated[i]) # {} THEN 1 ELSE 0
    /\ dpc = "loop" => Len(anomalyTable) = Len(anomalies)
    /\ raised \in ErrTexts =>
          /\ dpc = "raised"
          /\ Len(anomalyTable) = Len(anomalies) - 1

C14_Witness ==
    /\ raised \in ErrTexts
    /\ dpc = "raised"
    /\ Len(anomalies) = 3
    /\ Len(anomalyTable) = 2
    /\ anomalyTable[2].detected_date = anomalies[2].date

C14_WitnessReturned ==
    /\ dpc = "returned"
    /\ Len(anomalies) = 2
    /\ Len(anomalyTable) = 2

\* =====================================================================
\* check_resource_compliance of the tag enforcer (SpecTags)
\* =====================================================================
\* A tag value is the tuple of its characters. A pattern is a regular
\* expression made of character classes, one per position; re.match anchors
\* it at the start of the value and accepts any rest.
MaxRules == 2

TagKeys == {"Environment", "Owner"}
Production == <<"p", "r", "o", "d">>
Development == <<"d", "e", "v">>
TagValues == {Production, Development, <<"t", "7">>}
AllowedValueLists == {{}, {Production}, {Production, Development}}
Lower == {"d", "e", "o", "p", "r", "t", "v"}
Digit == {"7"}
Patterns == {<<Lower, Digit>>, <<{"d"}>>}

\* an entry of policies['required_tags'], with and without a 'pattern' key
Rules ==
    [key : TagKeys, values : AllowedValueLists]
        \cup [key : TagKeys, values : AllowedValueLists, pattern : Patterns]

\* re.match(pattern, value)
re_match(pattern, value) ==
    /\ Len(value) >= Len(pattern)
    /\ \A i \in 1..Len(pattern) : value[i] \in pattern[i]

\* if required_tag['values'] and tag_value not in required_tag['values']
ValueFindingsNone(rule, value) == <<>>
ValueFindings(rule, value) ==
    IF rule.values # {} /\ value \notin rule.values
    THEN <<[key |-> rule.key, value |-> value, allowed_values |-> rule.values]>>
    ELSE <<>>

\* if 'pattern' in required_tag: if not re.match(...)
PatternFindings(rule, value) ==
    IF "pattern" \in DOMAIN rule /\ ~re_match(rule.pattern, value)
    THEN <<[key |-> rule.key, value |-> value, pattern |-> rule.pattern]>>
    ELSE <<>>

\* len(missing_tags) == 0 and len(invalid_tags) == 0
CompliantIfNothingMissing(missing_tags, invalid_tags) == Len(missing_tags) = 0
Compliant(missing_tags, invalid_tags) ==
    Len(missing_tags) = 0 /\ Len(invalid_tags) = 0

\* the for loop of check_resource_compliance over the rules left
RECURSIVE CheckRules(_, _, _, _)
CheckRules(tagset, rules, missing_tags, invalid_tags) ==
    IF rules = <<>>
    THEN [compliant |-> Compliant(missing_tags, invalid_tags),
          missing_tags |-> missing_tags,
          invalid_tags |-> invalid_tags]
    ELSE LET required_tag == Head(rules)
             tag_key == required_tag.key
         IN IF tag_key \notin DOMAIN tagset
            THEN CheckRules(tagset, Tail(rules),
                            Append(missing_tags, tag_key), invalid_tags)
            ELSE CheckRules(tagset, Tail(rules), missing_tags,
                            invalid_tags
                                \o ValueFindings(required_tag, tagset[tag_key])
                                \o PatternFindings(required_tag, tagset[tag_key]))

check_resource_compliance(tagset, rules) == CheckRules(tagset, rules, <<>>, <<>>)

TagSets == UNION {[K -> TagValues] : K \in SUBSET TagKeys}
RuleLists == UNION {[1..n -> Rules] : n \in 0..MaxRules}

InitTags ==
    /\ dryRun = TRUE
    /\ store = <<>>
    /\ clock = 0
    /\ result = NoResult
    /\ ExecutorIdle
    /\ CallsIdle
    /\ BucketsIdle
    /\ PassesIdle
    /\ ScannerIdle
    /\ DetectorIdle
    /\ tags \in TagSets
    /\ required_tags \in RuleLists
    /\ compliance = NoCompliance
    /\ tpc = "start"

\* compliance = check_resource_compliance(tags, policies['required_tags'])
check_tags ==
    /\ tpc = "start"
    /\ compliance' = check_resource_compliance(tags, required_tags)
    /\ tpc' = "checked"
    /\ UNCHANGED <<store, clock, result, executorVars, callVars, detectorVars, bucketVars, passVars,
                   scanVars, tags, required_tags>>

NextTags == check_tags

SpecTags == InitTags /\ [][NextTags]_vars

Range(list) == {list[i] : i \in 1..Len(list)}
RuleOrders(n) ==
    {p \in [1..n -> 1..n] : \A i, j \in 1..n : p[i] = p[j] => i = j}
\* the rule as the policy states it
Satisfies(tagset, rule) ==
    /\ rule.key \in DOMAIN tagset
    /\ rule.values # {} => tagset[rule.key] \in rule.values
    /\ "pattern" \in DOMAIN rule => re_match(rule.pattern, tagset[rule.key])

\* C15: the verdict is compliant exactly when the tag set satisfies every
\* rule of the list (so with no rule it is compliant), and the verdict, the
\* set of missing keys and the set of invalid entries are the same for every
\* order of the rules.
C15_CompliantIffEveryRuleHolds ==
    tpc = "checked" =>
        /\ compliance.compliant <=>
              \A i \in 1..Len(required_tags) : Satisfies(tags, required_tags[i])
        /\ required_tags = <<>> => compliance.compliant
        /\ \A p \in RuleOrders(Len(required_tags)) :
              LET permuted == [i \in 1..Len(required_tags) |-> required_tags[p[i]]]
                  other == check_resource_compliance(tags, permuted)
              IN /\ other.compliant = compliance.compliant
                 /\ Range(other.missing_tags) = Range(compliance.missing_tags)
                 /\ Range(other.invalid_tags) = Range(compliance.invalid_tags)

C15_Witness ==
    /\ tpc = "checked"
    /\ compliance.compliant
    /\ Len(required_tags) = MaxRules
    /\ required_tags[1].key # required_tags[2].key
    /\ required_tags[1].values # {}
    /\ "pattern" \in DOMAIN required_tags[2]

\* C16: a required key the tag set lacks is in missing_tags, never in
\* invalid_tags, and the verdict is non-compliant; a key present with a value
\* outside a non-empty allowed list gets an invalid_tags entry and is not in
\* missing_tags; no key is in both lists.
InvalidKeys == {compliance.invalid_tags[i].key : i \in 1..Len(compliance.invalid_tags)}

C16_MissingAndInvalidAreDistinct ==
    tpc = "checked" =>
        /\ \A i \in 1..Len(required_tags) :
              LET rule == required_tags[i] IN
              /\ rule.key \notin DOMAIN tags =>
                    /\ rule.key \in Range(compliance.missing_tags)
                    /\ rule.key \notin InvalidKeys
                    /\ ~compliance.compliant
              /\ (/\ rule.key \in DOMAIN tags
                  /\ rule.values # {}
                  /\ tags[rule.key] \notin rule.values) =>
                    /\ \E e \in Range(compliance.invalid_tags) :
                          /\ e.key = rule.key
                          /\ e.value = tags[rule.key]
                          /\ "allowed_values" \in DOMAIN e
                          /\ e.allowed_values = rule.values
                    /\ rule.key \notin Range(compliance.missing_tags)
                    /\ ~compliance.compliant
        /\ Range(compliance.missing_tags) \cap InvalidKeys = {}

C16_Witness ==
    /\ tpc = "checked"
    /\ Len(compliance.missing_tags) = 1
    /\ Len(compliance.invalid_tags) = 1
    /\ "allowed_values" \in DOMAIN compliance.invalid_tags[1]
    /\ compliance.missing_tags[1] # compliance.invalid_tags[1].key

\* =====================================================================
\* lambda_handler of the resource scanner (SpecScan)
\* =====================================================================
\* One pass of the handler over an account of at most MaxResources
\* resources, one step per external call; at most MaxFaults of the calls of
\* a pass fail. A metric average is kept in hundredths, as round(avg, 2)
\* leaves it. The cost estimates of the findings are left out.
MaxResources == 2
MaxFaults == 1

CpuIdleBelow == 5
ConnectionsIdleBelow == 1
UnattachedDays == 7
SnapshotMaxAge == 90
AmiMaxAge == 180

\* the scans in the order lambda_handler calls them
ScanOrder ==
    <<"ec2_instances", "ebs_volumes", "elastic_ips", "rds_instances",
      "load_balancers", "old_snapshots", "old_amis">>
Kinds == Range(ScanOrder)

\* 'resource_type' of the findings of a scan
ResourceTypeOf(kind) ==
    CASE kind = "ec2_instances" -> "ec2_instance"
      [] kind = "ebs_volumes" -> "ebs_volume"
      [] kind = "elastic_ips" -> "elastic_ip"
      [] kind = "rds_instances" -> "rds_instance"
      [] kind = "load_balancers" -> "load_balancer"
      [] kind = "old_snapshots" -> "snapshot"
      [] kind = "old_amis" -> "ami"

\* the listing call of a scan
ListApi(kind) ==
    CASE kind = "ec2_instances" -> "describe_instances"
      [] kind = "ebs_volumes" -> "describe_volumes"
      [] kind = "elastic_ips" -> "describe_addresses"
      [] kind = "rds_instances" -> "describe_db_instances"
      [] kind = "load_balancers" -> "describe_load_balancers"
      [] kind = "old_snapshots" -> "describe_snapshots"
      [] kind = "old_amis" -> "describe_images"

NoTags == <<>>
\* The resources an account may hold. detached_days, the days since a
\* volume was last detached, is a fact of the account that no response
\* carries; the other fields are those the scans read.
ResourcesOf(kind) ==
    CASE kind = "ec2_instances" ->
            [state : {"running"},
             tags : {NoTags, "DoNotStop" :> "true", "Environment" :> "Production",
                     "Environment" :> "Staging"}]
                \cup {[state |-> "stopped", tags |-> NoTags]}
      [] kind = "ebs_volumes" ->
            {[status |-> "in-use", created_days |-> 30, detached_days |-> 0,
              tags |-> NoTags],
             [status |-> "available", created_days |-> 3, detached_days |-> 3,
              tags |-> NoTags],
             [status |-> "available", created_days |-> 30, detached_days |-> 2,
              tags |-> NoTags],
             [status |-> "available", created_days |-> 30, detached_days |-> 30,
              tags |-> NoTags],
             [status |-> "available", created_days |-> 30, detached_days |-> 30,
              tags |-> "DoNotDelete" :> "true"]}
      [] kind = "elastic_ips" -> [associated : BOOLEAN]
      [] kind = "rds_instances" -> {[engine |-> "mysql"]}
      [] kind = "load_balancers" ->
            [target_groups : {<<>>, <<"unhealthy">>, <<"healthy">>,
                              <<"unhealthy", "healthy">>}]
      [] kind = "old_snapshots" -> [age_days : {30, 120}]
      [] kind = "old_amis" -> [age_days : {30, 200}]

EmptyAccount == [kind \in Kinds |-> <<>>]
RECURSIVE Accounts(_)
Accounts(n) ==
    IF n = 0 THEN {EmptyAccount}
    ELSE LET smaller == Accounts(n - 1)
         IN smaller \cup
            UNION {{[a EXCEPT ![kind] = Append(@, r)] : r \in ResourcesOf(kind)} :
                      a \in smaller, kind \in Kinds}

IdOf(kind, i) == ResourceTypeOf(kind) \o "-" \o ToString(i)

\* the response of the listing call: the filter of the request applied
Listing(kind) ==
    LET all == [i \in 1..Len(account[kind]) |->
                  [id |-> IdOf(kind, i), attributes |-> account[kind][i]]]
        InResponse(item) ==
            CASE kind = "ec2_instances" -> item.attributes.state = "running"
              [] kind = "ebs_volumes" -> item.attributes.status = "available"
              [] OTHER -> TRUE
    IN SelectSeq(all, InResponse)

\* if 'DoNotStop' in tags or tags.get('Environment') == 'Production'
Exempt(instance_tags) ==
    \/ "DoNotStop" \in DOMAIN instance_tags
    \/ /\ "Environment" \in DOMAIN instance_tags
       /\ instance_tags["Environment"] = "Production"

\* (datetime.now(create_time.tzinfo) - create_time).days
DaysUnattached(volume) == volume.created_days

\* round(sum / count, 2), in hundredths, ties to the even hundredth
Round2(sum, count) ==
    LET q == (sum * 100) \div count
        r == (sum * 100) % count
    IN IF 2 * r < count THEN q
       ELSE IF 2 * r > count THEN q + 1
       ELSE IF q % 2 = 0 THEN q ELSE q + 1

\* the outcomes of cloudwatch.get_metric_statistics
Datapoints == {<<>>, <<0, 1>>, <<2>>, <<2, 50>>}
MetricOutcomes ==
    {[raised |-> TRUE, Datapoints |-> <<>>]}
        \cup [raised : {FALSE}, Datapoints : Datapoints]

\* get_cpu_utilization / get_rds_connections: the rounded average, 0 when
\* the lookup raised or returned no datapoint
SampleValueUnknownIsBusy(outcome) ==
    IF outcome.raised \/ outcome.Datapoints = <<>> THEN 100 * 100
    ELSE Round2(Sum(outcome.Datapoints), Len(outcome.Datapoints))
SampleValue(outcome) ==
    IF outcome.raised \/ outcome.Datapoints = <<>> THEN 0
    ELSE Round2(Sum(outcome.Datapoints), Len(outcome.Datapoints))

\* if cpu_avg < 5 / if connections < 1
IdleSample(kind, value) ==
    IF kind = "ec2_instances" THEN value < CpuIdleBelow * 100
    ELSE value < ConnectionsIdleBelow * 100

\* the dict appended to the list of the scan; save_idle_resource puts its
\* resource_id, resource_type and metadata
Finding(kind, item, metadata) ==
    [resource_id |-> item.id, resource_type |-> ResourceTypeOf(kind),
     metadata |-> metadata]

MetricMetadata(kind, value) ==
    IF kind = "ec2_instances" THEN [cpu_average |-> value]
    ELSE [connections_average |-> value]

\* The for loop of a scan from position pos up to its next external call:
\* the stage it stops at, with the position and the list it has then.
RECURSIVE Examine(_, _, _, _)
Examine(kind, listing, pos, list) ==
    IF pos > Len(listing) THEN [stage |-> "return", pos |-> pos, found |-> list]
    ELSE
    LET item == listing[pos]
        r == item.attributes
        skip == Examine(kind, listing, pos + 1, list)
        put(metadata) ==
            [stage |-> "put", pos |-> pos,
             found |-> Append(list, Finding(kind, item, metadata))]
    IN CASE kind = "ec2_instances" ->
                IF Exempt(r.tags) THEN skip
                ELSE [stage |-> "metric", pos |-> pos, found |-> list]
         [] kind = "ebs_volumes" ->
                IF "DoNotDelete" \in DOMAIN r.tags THEN skip
                ELSE IF DaysUnattached(r) >= UnattachedDays
                THEN put([days_unattached |-> DaysUnattached(r)])
                ELSE skip
         [] kind = "elastic_ips" ->
                IF ~r.associated THEN put([public_ip |-> item.id]) ELSE skip
         [] kind = "rds_instances" ->
                [stage |-> "metric", pos |-> pos, found |-> list]
         [] kind = "load_balancers" ->
                [stage |-> "groups", pos |-> pos, found |-> list]
         [] kind = "old_snapshots" ->
                IF r.age_days > SnapshotMaxAge
                THEN put([age_days |-> r.age_days]) ELSE skip
         [] kind = "old_amis" ->
                IF r.age_days > AmiMaxAge
                THEN put([age_days |-> r.age_days]) ELSE skip

InitScan ==
    /\ dryRun = TRUE
    /\ store = <<>>
    /\ clock = 0
    /\ result = NoResult
    /\ ExecutorIdle
    /\ CallsIdle
    /\ BucketsIdle
    /\ PassesIdle
    /\ DetectorIdle
    /\ TagsIdle
    /\ account \in Accounts(MaxResources)
    /\ spc = "list"
    /\ kindIdx = 1
    /\ inventory = <<>>
    /\ rpos = 0
    /\ tgpos = 0
    /\ found = <<>>
    /\ idle_resources = [kind \in Kinds |-> <<>>]
    /\ idleTable = <<>>
    /\ sampled = {}
    /\ faults = {}

CurrentKind == ScanOrder[kindIdx]
\* another external call of the pass may fail
MayFail == Cardinality(faults) < MaxFaults
Fault(kind, api, id) == faults' = faults \cup {<<kind, api, id>>}

\* `return idle_instances`, at the end of the try or of the except clause:
\* the handler stores the list and calls the next scan
Return(kind, list) ==
    /\ idle_resources' = [idle_resources EXCEPT ![kind] = list]
    /\ kindIdx' = kindIdx + 1
    /\ spc' = IF kindIdx = Len(ScanOrder) THEN "results" ELSE "list"
    /\ inventory' = <<>>
    /\ rpos' = 0
    /\ tgpos' = 0
    /\ found' = <<>>

\* the scan goes on from position pos of its listing
Proceed(kind, listing, pos, list) ==
    LET next == Examine(kind, listing, pos, list)
    IN IF next.stage = "return" THEN Return(kind, next.found)
       ELSE /\ spc' = next.stage
            /\ inventory' = listing
            /\ rpos' = next.pos
            /\ tgpos' = 1
            /\ found' = next.found
            /\ UNCHANGED <<kindIdx, idle_resources>>

\* the finding is appended and save_idle_resource is called next
AppendAndSave(kind, metadata) ==
    /\ spc' = "put"
    /\ found' = Append(found, Finding(kind, inventory[rpos], metadata))
    /\ UNCHANGED <<kindIdx, idle_resources, inventory, rpos, tgpos>>

\* the listing call of a scan, inside its try
scan_list ==
    /\ spc = "list"
    /\ \/ /\ Proceed(CurrentKind, Listing(CurrentKind), 1, <<>>)
          /\ UNCHANGED faults
       \/ /\ MayFail
          /\ Fault(CurrentKind, ListApi(CurrentKind), "")
          /\ Return(CurrentKind, <<>>)
    /\ UNCHANGED <<store, clock, result, executorVars, callVars, detectorVars, bucketVars, passVars,
                   tagVars, account, idleTable, sampled>>

\* get_cpu_utilization / get_rds_connections and the test on its value
scan_metric ==
    /\ spc = "metric"
    /\ \E outcome \in MetricOutcomes :
          LET item == inventory[rpos]
              value == SampleValue(outcome)
          IN /\ outcome.raised => MayFail
             /\ IF outcome.raised
                THEN Fault(CurrentKind, "get_metric_statistics", item.id)
                ELSE UNCHANGED faults
             /\ sampled' = sampled \cup {<<item.id, outcome>>}
             /\ IF IdleSample(CurrentKind, value)
                THEN AppendAndSave(CurrentKind, MetricMetadata(CurrentKind, value))
                ELSE Proceed(CurrentKind, inventory, rpos + 1, found)
    /\ UNCHANGED <<store, clock, result, executorVars, callVars, detectorVars, bucketVars, passVars,
                   tagVars, account, idleTable>>

\* elbv2.describe_target_groups of a load balancer
scan_groups ==
    /\ spc = "groups"
    /\ \/ /\ UNCHANGED faults
          /\ IF inventory[rpos].attributes.target_groups = <<>>
             THEN AppendAndSave(CurrentKind, [name |-> inventory[rpos].id])
             ELSE /\ spc' = "health"
                  /\ tgpos' = 1
                  /\ UNCHANGED <<kindIdx, idle_resources, inventory, rpos, found>>
       \/ /\ MayFail
          /\ Fault(CurrentKind, "describe_target_groups", inventory[rpos].id)
          /\ Return(CurrentKind, found)
    /\ UNCHANGED <<store, clock, result, executorVars, callVars, detectorVars, bucketVars, passVars,
                   tagVars, account, idleTable, sampled>>

\* elbv2.describe_target_health of one target group
scan_health ==
    /\ spc = "health"
    /\ LET groups == inventory[rpos].attributes.target_groups
       IN \/ /\ UNCHANGED faults
             /\ IF groups[tgpos] = "healthy"
                THEN Proceed(CurrentKind, inventory, rpos + 1, found)
                ELSE IF tgpos = Len(groups)
                THEN AppendAndSave(CurrentKind, [name |-> inventory[rpos].id])
                ELSE /\ tgpos' = tgpos + 1
                     /\ UNCHANGED <<spc, kindIdx, idle_resources, inventory,
                                    rpos, found>>
          \/ /\ MayFail
             /\ Fault(CurrentKind, "describe_target_health", inventory[rpos].id)
             /\ Return(CurrentKind, found)
    /\ UNCHANGED <<store, clock, result, executorVars, callVars, detectorVars, bucketVars, passVars,
                   tagVars, account, idleTable, sampled>>

\* table.put_item(Item={'resource_id': ..., 'scan_date': ..., ...}); the
\* passes of one day write the same key for a resource
put_item(table, item) ==
    [id \in DOMAIN table \cup {item.resource_id} |->
        IF id = item.resource_id THEN item ELSE table[id]]

\* save_idle_resource of the finding appended last
save_idle_resource_batched ==
    /\ spc = "put"
    /\ \/ /\ UNCHANGED <<faults, idleTable>>
          /\ Proceed(CurrentKind, inventory, rpos + 1, found)
       \/ /\ MayFail
          /\ Fault(CurrentKind, "put_item", inventory[rpos].id)
          /\ UNCHANGED idleTable
          /\ Return(CurrentKind, found)
    /\ UNCHANGED <<store, clock, result, executorVars, callVars, detectorVars, bucketVars, passVars,
                   tagVars, account, sampled>>
save_idle_resource ==
    /\ spc = "put"
    /\ \/ /\ idleTable' = put_item(idleTable, found[Len(found)])
          /\ UNCHANGED faults
          /\ Proceed(CurrentKind, inventory, rpos + 1, found)
       \/ /\ MayFail
          /\ Fault(CurrentKind, "put_item", inventory[rpos].id)
          /\ UNCHANGED idleTable
          /\ Return(CurrentKind, found)
    /\ UNCHANGED <<store, clock, result, executorVars, callVars, detectorVars, bucketVars, passVars,
                   tagVars, account, sampled>>

\* calculate_savings and save_scan_results: one s3 put_object, whose error
\* the handler raises again
save_scan_results ==
    /\ spc = "results"
    /\ \/ /\ spc' = "done"
          /\ UNCHANGED faults
       \/ /\ MayFail
          /\ Fault("results", "put_object", "")
          /\ spc' = "raised"
    /\ UNCHANGED <<store, clock, result, executorVars, callVars, detectorVars, bucketVars, passVars,
                   tagVars, account, kindIdx, inventory, rpos, tgpos, found,
                   idle_resources, idleTable, sampled>>

NextScan ==
    \/ scan_list
    \/ scan_metric
    \/ scan_groups
    \/ scan_health
    \/ save_idle_resource
    \/ save_scan_results

SpecScan == InitScan /\ [][NextScan]_vars

\* ------------------------------------------------ properties of the scan
KindPos(kind) == CHOOSE i \in 1..Len(ScanOrder) : ScanOrder[i] = kind
\* the scan of the kind has returned / is running
Returned(kind) == KindPos(kind) < kindIdx
Running(kind) == KindPos(kind) = kindIdx
\* the list of the scan as it is now
FindingsOf(kind) ==
    IF Returned(kind) THEN idle_resources[kind]
    ELSE IF Running(kind) THEN found ELSE <<>>
\* the failed calls that end the scan of a kind in its except clause
AbortingFaults(kind) ==
    {f \in faults : f[1] = kind /\ f[2] # "get_metric_statistics"}
Reported(kind, id) ==
    \E f \in Range(FindingsOf(kind)) : f.resource_id = id
InTable(finding) ==
    /\ finding.resource_id \in DOMAIN idleTable
    /\ idleTable[finding.resource_id] = finding
MissingSample(id) ==
    \E s \in sampled : s[1] = id /\ (s[2].raised \/ s[2].Datapoints = <<>>)
\* the resource is one whose utilization the scan looks up
Sampled(kind, r) ==
    kind = "ec2_instances" =>
        /\ r.state = "running"
        /\ "DoNotStop" \notin DOMAIN r.tags
        /\ ~("Environment" \in DOMAIN r.tags /\ r.tags["Environment"] = "Production")

\* C17: a metric lookup that raises or returns no datapoint counts as a
\* sample of 0: the running, non-exempt instance or the database is reported
\* idle with that value, and the scan of the kind goes on to its other
\* resources.
C17_MissingSampleCountsAsIdle ==
    \A kind \in {"ec2_instances", "rds_instances"} :
        \A i \in 1..Len(account[kind]) :
            LET id == IdOf(kind, i) IN
            /\ MissingSample(id) =>
                  /\ Sampled(kind, account[kind][i])
                  /\ \E f \in Range(FindingsOf(kind)) :
                        /\ f.resource_id = id
                        /\ f.metadata = MetricMetadata(kind, 0)
            /\ (Returned(kind) /\ AbortingFaults(kind) = {}
                    /\ Sampled(kind, account[kind][i])) =>
                  \E s \in sampled : s[1] = id

C17_Witness ==
    /\ spc = "done"
    /\ \E s \in sampled : s[1] = IdOf("ec2_instances", 1) /\ s[2].raised
    /\ \E s \in sampled :
          /\ s[1] = IdOf("rds_instances", 1)
          /\ ~s[2].raised
          /\ s[2].Datapoints = <<>>
    /\ Len(idle_resources["ec2_instances"]) = 1
    /\ Len(idle_resources["rds_instances"]) = 1
    /\ InTable(idle_resources["ec2_instances"][1])
    /\ InTable(idle_resources["rds_instances"][1])

\* C18: a volume is reported idle exactly when it is available, was detached
\* at least 7 days ago and has no DoNotDelete tag.
C18_IdleIffUnattachedSevenDays ==
    (Returned("ebs_volumes") /\ AbortingFaults("ebs_volumes") = {}) =>
        \A i \in 1..Len(account["ebs_volumes"]) :
            LET volume == account["ebs_volumes"][i] IN
            Reported("ebs_volumes", IdOf("ebs_volumes", i)) <=>
                /\ volume.status = "available"
                /\ volume.detached_days >= 7
                /\ "DoNotDelete" \notin DOMAIN volume.tags

\* C19: a finding is put in the table, by a write of its own, before the
\* scan examines its next resource, and the findings written stay in the
\* table whatever fails later in the pass.
C19_FindingWrittenBeforeNext ==
    /\ spc \in {"metric", "groups", "health"} =>
          \A i \in 1..Len(found) : InTable(found[i])
    /\ spc = "put" =>
          /\ found # <<>>
          /\ found[Len(found)].resource_id = inventory[rpos].id
          /\ found[Len(found)].resource_id \notin DOMAIN idleTable
          /\ \A i \in 1..(Len(found) - 1) : InTable(found[i])
    /\ \A kind \in Kinds :
          Returned(kind) =>
              LET list == idle_resources[kind] IN
              /\ \A i \in 1..(Len(list) - 1) : InTable(list[i])
              /\ list # <<>> =>
                    \/ InTable(list[Len(list)])
                    \/ <<kind, "put_item", list[Len(list)].resource_id>> \in faults
    /\ \A id \in DOMAIN idleTable :
          \E kind \in Kinds : Reported(kind, id)

C19_Witness ==
    /\ spc = "done"
    /\ Len(idle_resources["ec2_instances"]) = 2
    /\ InTable(idle_resources["ec2_instances"][1])
    /\ ~InTable(idle_resources["ec2_instances"][2])
    /\ <<"ec2_instances", "put_item", IdOf("ec2_instances", 2)>> \in faults

\* C20: when a call fails during the scan of a kind (the listing, a metric
\* lookup or the write of a finding), the list of that kind is empty, the
\* pass is not aborted and every other kind is scanned.
C20_FailedKindIsEmpty ==
    /\ \A kind \in Kinds :
          (Returned(kind) /\ \E f \in faults : f[1] = kind) =>
              idle_resources[kind] = <<>>
    /\ spc \in {"results", "done", "raised"} => kindIdx = Len(ScanOrder) + 1
    /\ spc = "raised" => <<"results", "put_object", "">> \in faults

\* =====================================================================
\* Properties of the cleanup executor (Spec)
\* =====================================================================
MutatingApis ==
    {"stop_instances", "terminate_instances", "create_snapshot", "delete_volume",
     "release_address", "delete_snapshot", "deregister_image",
     "delete_load_balancer"}

CallIndexes == 1..Len(calls)
Listed == 1..Len(pending)
AllResults == results.executed \o results.failed \o results.skipped

\* the key under which the producer stored an action
OwnKey(action) == <<action.action_id, action.scheduled_date>>
StoredItem(action) == store[OwnKey(action)]
\* the listed action a call was issued for
ActionOfCall(i) == pending[calls[i].position]
HandlerOf(action) == Handler(action.resource_type, action.action_type)
Routed(action) == HandlerOf(action) \in Handlers

\* execute_cleanup_action has returned for the k-th listed action
Executed(k) == k < idx
\* the status write of an action was issued / was applied
StatusWrites(action_id) ==
    {i \in CallIndexes : calls[i].action_id = action_id /\ calls[i].api = "update_item"}
Written(action_id) ==
    \E i \in StatusWrites(action_id) : calls[i].outcome = "ok"
HasMarker(message) == \E i \in 1..Len(message) : message[i] = "[DRY RUN]"

\* C1: with DRY_RUN set, no mutating call is issued, every action routed to a
\* handler gets success = true, and the message stored for it carries the
\* "[DRY RUN]" marker.
C1_DryRunNeverMutates ==
    dryRun =>
        /\ \A i \in CallIndexes : calls[i].api \notin MutatingApis
        /\ \A i \in 1..Len(AllResults) :
              Routed(AllResults[i]) => AllResults[i].success
        /\ \A k \in Listed :
              (Routed(pending[k]) /\ Executed(k)) =>
                  /\ \E i \in 1..Len(results.executed) :
                        results.executed[i].action_id = pending[k].action_id
                  /\ StoredItem(pending[k]).status \in {"pending", "completed"}
                  /\ Written(pending[k].action_id) =>
                        /\ StoredItem(pending[k]).status = "completed"
                        /\ HasMarker(StoredItem(pending[k]).result_message)

C1_Witness ==
    /\ dryRun
    /\ pc = "done"
    /\ Len(pending) = NumActions
    /\ \A k \in Listed :
          /\ Routed(pending[k])
          /\ Written(pending[k].action_id)
          /\ HasMarker(StoredItem(pending[k]).result_message)

\* C2: live, snapshot_and_delete: when create_snapshot or the wait for the
\* snapshot fails, delete_volume is never called for the volume and the status
\* written for the action is failed: the stored status is never skipped or
\* completed, and it is failed once the status write has returned.
SnapshotFailures ==
    {i \in CallIndexes :
        /\ calls[i].api \in {"create_snapshot", "wait_snapshot_completed"}
        /\ calls[i].outcome # "ok"
        /\ HandlerOf(ActionOfCall(i)) = "snapshot_and_delete_volume"}

C2_SnapshotFailureNeverDeletes ==
    \A i \in SnapshotFailures :
        LET action == ActionOfCall(i) IN
        /\ ~dryRun
        /\ \A j \in CallIndexes :
              ~(calls[j].action_id = action.action_id /\ calls[j].api = "delete_volume")
        /\ StoredItem(action).status \in {"pending", "failed"}
        /\ Written(action.action_id) => StoredItem(action).status = "failed"
        /\ \A j \in StatusWrites(action.action_id) : calls[j].target = "failed"

C2_Witness ==
    \E i \in SnapshotFailures :
        /\ calls[i].api = "wait_snapshot_completed"
        /\ Written(calls[i].action_id)
        /\ StoredItem(ActionOfCall(i)).status = "failed"
        /\ pc = "done"

\* C3: live, the destructive call of terminate_ec2_instance and of
\* snapshot_and_delete_volume is issued only after a snapshot of every
\* affected volume has been created and its completion awaited.
AffectedVolumes(j) ==
    LET action == ActionOfCall(j) IN
    IF HandlerOf(action) = "snapshot_and_delete_volume" THEN {action.resource_id}
    ELSE {VolumeOf(action.resource_id, v) : v \in
            1..(CHOOSE n \in 0..MaxVolumes :
                  \E i \in 1..(j - 1) :
                      /\ calls[i].action_id = action.action_id
                      /\ calls[i].api = "describe_instances"
                      /\ calls[i].volumes = n)}

DestructiveCalls ==
    {j \in CallIndexes :
        \/ calls[j].api = "terminate_instances"
        \/ /\ calls[j].api = "delete_volume"
           /\ HandlerOf(ActionOfCall(j)) = "snapshot_and_delete_volume"}

C3_SnapshotAwaitedBeforeDestroy ==
    \A j \in DestructiveCalls :
        \A vol \in AffectedVolumes(j) :
            \E i \in 1..(j - 1) :
                /\ calls[i].action_id = calls[j].action_id
                /\ calls[i].api = "create_snapshot"
                /\ calls[i].target = vol
                /\ calls[i].outcome = "ok"
                /\ \E w \in (i + 1)..(j - 1) :
                      /\ calls[w].action_id = calls[j].action_id
                      /\ calls[w].api = "wait_snapshot_completed"
                      /\ calls[w].target = SnapshotOf(vol)
                      /\ calls[w].outcome = "ok"

\* C4: an action whose (resource_type, action_type) pair has no handler ends
\* with stored status skipped and a non-empty message, never failed.
C4_UnmatchedPairIsSkipped ==
    \A k \in Listed :
        (~Routed(pending[k]) /\ Executed(k)) =>
            /\ StoredItem(pending[k]).status # "failed"
            /\ Written(pending[k].action_id) =>
                  /\ StoredItem(pending[k]).status = "skipped"
                  /\ StoredItem(pending[k]).result_message # <<>>

\* C5: the actions of a pass are processed one after another, and the status
\* write of an action is issued, and applied when it returns, before anything
\* is done for the next action; no write is left for later.
C5_SequentialWriteback ==
    /\ \A i \in 1..(Len(calls) - 1) :
          /\ calls[i].position <= calls[i + 1].position
          /\ calls[i].action_id = calls[i + 1].action_id => calls[i].api # "update_item"
    /\ \A i \in CallIndexes :
          /\ calls[i].position \in Listed
          /\ calls[i].position <= idx
          /\ calls[i].action_id = pending[calls[i].position].action_id
    /\ pc \in {"update", "call", "describe_instances", "snapshot_bdm",
               "terminate_instances", "create_snapshot", "wait_snapshot",
               "delete_snapshotted_volume"} =>
          (idx \in Listed /\ result.action_id = pending[idx].action_id)
    /\ LET all == AllResults
           writes == {i \in CallIndexes : calls[i].api = "update_item"}
       IN \A k \in Listed :
             LET action == pending[k]
                 mine == {i \in writes : calls[i].position = k}
             IN IF Executed(k)
                THEN \E w \in mine :
                        /\ mine = {w}
                        /\ \E i \in 1..Len(all) :
                              /\ all[i].action_id = action.action_id
                              /\ calls[w].target = StatusOf(all[i])
                              /\ IF calls[w].outcome = "ok"
                                 THEN /\ StoredItem(action).status = calls[w].target
                                      /\ StoredItem(action).status \in
                                            {"completed", "failed", "skipped"}
                                      /\ StoredItem(action).result_message = all[i].message
                                 ELSE StoredItem(action).status = "pending"
                ELSE /\ mine = {}
                     /\ StoredItem(action).status = "pending"

C5_Witness ==
    /\ pc = "call"
    /\ idx = 2
    /\ Written(pending[1].action_id)
    /\ \E i \in CallIndexes : calls[i].api \in MutatingApis

\* C6: live, a failed mutating call makes the action's status failed with the
\* error text in the stored message (once the status write has returned), the
\* pass goes on, and every listed action is processed before the pass ends.
FailedMutatingCalls ==
    {i \in CallIndexes : calls[i].api \in MutatingApis /\ calls[i].outcome # "ok"}

C6_FailedCallRecordedAndPassContinues ==
    /\ \A i \in FailedMutatingCalls :
          LET action == ActionOfCall(i) IN
          /\ \A j \in StatusWrites(action.action_id) : calls[j].target = "failed"
          /\ Written(action.action_id) =>
                /\ StoredItem(action).status = "failed"
                /\ \E m \in 1..Len(StoredItem(action).result_message) :
                      StoredItem(action).result_message[m] = calls[i].outcome
          /\ Executed(calls[i].position) => StatusWrites(action.action_id) # {}
    /\ pc \in {"done", "raised"} =>
          /\ idx = Len(pending) + 1
          /\ Len(AllResults) = Len(pending)
          /\ \A k \in Listed : StatusWrites(pending[k].action_id) # {}
    /\ pc = "raised" => SummaryDue(results)

C6_Witness ==
    /\ pc = "done"
    /\ Len(pending) = NumActions
    /\ \E i \in FailedMutatingCalls :
          /\ calls[i].action_id = pending[1].action_id
          /\ Written(calls[i].action_id)
    /\ Len(results.failed) = 1
    /\ Len(results.executed) = NumActions - 1

\* C9: the summary is published exactly when an action of the pass landed in
\* the executed list or in the failed list.
C9_SummaryIffExecutedOrFailed ==
    /\ published => (pc = "done" /\ SummaryDue(results))
    /\ pc = "done" =>
          (published <=> (results.executed # <<>> \/ results.failed # <<>>))
    /\ pc = "raised" => (results.executed # <<>> \/ results.failed # <<>>)

C9_Witness ==
    /\ pc = "done"
    /\ published
    /\ results.executed = <<>>
    /\ results.failed # <<>>

C9_WitnessSilent ==
    /\ pc = "done"
    /\ ~published
    /\ Len(results.skipped) = NumActions

\* ---------------------------------------------------------------- C30
PositionOf(action_id) == CHOOSE k \in Listed : pending[k].action_id = action_id

InOrder(list) ==
    \A i, j \in 1..Len(list) :
        i < j => PositionOf(list[i].action_id) < PositionOf(list[j].action_id)

ListNames == {"executed", "failed", "skipped"}

\* C30: when a pass has completed, every action the pending query returned is
\* in exactly one of the three lists, once: in executed when its result has
\* success, else in skipped when it has skipped, else in failed; no result
\* has both flags, every list is in processing order and the lengths of the
\* three sum to the number of actions listed.
C30_EachActionInExactlyOneList ==
    /\ ~(result.success /\ result.skipped)
    /\ pc \in {"done", "raised"} =>
          /\ Len(results.executed) + Len(results.failed) + Len(results.skipped)
                = Len(pending)
          /\ \A k \in Listed :
                \E n \in ListNames :
                    /\ \E i \in 1..Len(results[n]) :
                          /\ results[n][i].action_id = pending[k].action_id
                          /\ \A j \in 1..Len(results[n]) :
                                results[n][j].action_id = pending[k].action_id => j = i
                    /\ \A m \in ListNames \ {n} :
                          \A j \in 1..Len(results[m]) :
                              results[m][j].action_id # pending[k].action_id
          /\ \A n \in ListNames :
                /\ InOrder(results[n])
                /\ \A i \in 1..Len(results[n]) :
                      LET res == results[n][i] IN
                      /\ ~(res.success /\ res.skipped)
                      /\ n = "executed" <=> res.success
                      /\ n = "skipped" <=> (~res.success /\ res.skipped)
                      /\ n = "failed" <=> (~res.success /\ ~res.skipped)

C30_Witness ==
    /\ pc = "done"
    /\ Len(pending) = NumActions
    /\ Len(results.executed) = 1
    /\ Len(results.skipped) = 1
    /\ results.failed = <<>>

\* ---------------------------------------------------------------- C26
StatusOfList ==
    [n \in ListNames |->
        IF n = "executed" THEN "completed"
        ELSE IF n = "failed" THEN "failed" ELSE "skipped"]

\* C26: at the end of a pass the stored status of every action in the
\* executed list is completed, of every action in the failed list failed and
\* of every action in the skipped list skipped, whether or not the status
\* write of the action returned.
C26_ListsMatchStoredStatus ==
    pc \in {"done", "raised"} =>
        \A n \in ListNames :
            \A i \in 1..Len(results[n]) :
                StoredItem(pending[PositionOf(results[n][i].action_id)]).status
                    = StatusOfList[n]

\* ---------------------------------------------------------------- C24
\* the query of get_pending_cleanup_actions raised: the pass holds an empty
\* list although the table has pending items (a pass with an empty list
\* writes nothing, so the table is as it was at the query)
QueryRaised ==
    /\ pc \notin {"idle", "load", "query"}
    /\ pending = <<>>
    /\ QueryPending(store) # <<>>

\* C24: a pass whose listing of the pending actions failed does not return:
\* it never ends as a success with zero actions.
C24_UnreachableStoreRaises == QueryRaised => pc # "done"

\* ---------------------------------------------------------------- C27
\* the resource type has an action type execute_cleanup_action routes to a
\* handler
Dispatchable(resource_type) ==
    \E action_type \in ActionTypes : Handler(resource_type, action_type) \in Handlers

\* C27: every finding the scanner reports is of a resource type for which
\* the cleanup executor has an action type it routes to a handler.
C27_EveryFindingKindIsDispatchable ==
    \A kind \in Kinds :
        \A f \in Range(FindingsOf(kind)) : Dispatchable(f.resource_type)

\* ---------------------------------------------------------------- C28
\* the external calls the handler of the action at position k issued
HandlerCalls(k) ==
    {i \in CallIndexes : calls[i].position = k /\ calls[i].api # "update_item"}

\* the status of the action at position k as a function of DRY_RUN, the
\* action and the outcomes of its external calls
ExpectedStatus(k) ==
    LET h == HandlerOf(pending[k]) IN
    IF h = "unsupported" THEN "skipped"
    ELSE IF h = "none" THEN "failed"
    ELSE IF dryRun THEN "completed"
    ELSE IF \A i \in HandlerCalls(k) : calls[i].outcome = "ok" THEN "completed"
    ELSE "failed"

\* C28: for every action a pass is done with, whether its handler issued
\* external calls, and the status written for it, are functions of DRY_RUN,
\* the action and the outcomes of the calls; the loaded policy document, its
\* dry_run field included, has no part in them.
C28_OutcomeIndependentOfPolicies ==
    pc \in {"loop", "done", "raised"} =>
        \A k \in 1..(idx - 1) :
            /\ HandlerCalls(k) # {} <=> (Routed(pending[k]) /\ ~dryRun)
            /\ \A w \in StatusWrites(pending[k].action_id) :
                  /\ calls[w].target = ExpectedStatus(k)
                  /\ calls[w].outcome = "ok" =>
                        StoredItem(pending[k]).status = ExpectedStatus(k)

C28_Witness ==
    /\ pc = "done"
    /\ ~dryRun
    /\ policies.dry_run
    /\ \E i \in CallIndexes :
          /\ calls[i].api \in MutatingApis
          /\ calls[i].outcome = "ok"
          /\ Written(calls[i].action_id)
          /\ StoredItem(ActionOfCall(i)).status = "completed"

\* =====================================================================
\* check_s3_tags of the tag enforcer (SpecBuckets)
\* =====================================================================
\* One call of check_s3_tags over an account of at most MaxBuckets buckets,
\* one step per external call. tags and compliance are the locals of the
\* loop body, required_tags is policies['required_tags'].
MaxBuckets == 2

BucketName(i) == "bucket-" \o ToString(i)
BucketTagSets ==
    {<<>>, "Environment" :> Production, "Environment" :> Development}
BucketPolicies ==
    {<<>>,
     <<[key |-> "Environment", values |-> {Production}]>>,
     <<[key |-> "Environment", values |-> {}, pattern |-> <<{"d"}>>]>>}
BucketLists ==
    UNION {[1..n -> BucketTagSets] : n \in 0..MaxBuckets}

InitBuckets ==
    /\ dryRun = TRUE
    /\ store = <<>>
    /\ clock = 0
    /\ result = NoResult
    /\ ExecutorIdle
    /\ nCalls = 0
    /\ prevResult = NoResult
    /\ prevStore = <<>>
    /\ addressed = {}
    /\ PassesIdle
    /\ ScannerIdle
    /\ DetectorIdle
    /\ tags = <<>>
    /\ required_tags \in BucketPolicies
    /\ compliance = NoCompliance
    /\ tpc = "idle"
    /\ \E list \in BucketLists :
          buckets = [i \in 1..Len(list) |->
                        [Name |-> BucketName(i), TagSet |-> list[i]]]
    /\ bpc = "list_buckets"
    /\ bpos = 0
    /\ resources = <<>>
    /\ s3calls = <<>>
    /\ complianceTable = <<>>

\* the except clause of check_s3_tags: print and go to `return results`
s3_except == bpc' = "returned"

\* response = s3_client.list_buckets()
list_buckets ==
    /\ bpc = "list_buckets"
    /\ \/ /\ s3calls' = Append(s3calls, <<"list_buckets", "", "ok">>)
          /\ bpos' = 1
          /\ bpc' = "bucket"
       \/ \E err \in ErrTexts :
          /\ s3calls' = Append(s3calls, <<"list_buckets", "", err>>)
          /\ bpos' = bpos
          /\ s3_except
    /\ UNCHANGED <<store, clock, result, executorVars, callVars, detectorVars,
                   tagVars, scanVars, passVars, buckets, resources,
                   complianceTable>>

\* The inner try block for the bucket bucket_name:
\*     tags_response = s3_client.get_bucket_tagging(Bucket=bucket_830)
\*     tags = {tag['Key']: tag['Value'] for tag in tags_response['TagSet']}
\* No name bucket_830 is bound in the function or in the module: evaluating
\* the argument raises NameError, get_bucket_tagging is not called and the
\* bare except clause sets tags = {}.
get_bucket_tagging(bucket_name) ==
    [issued |-> FALSE, raised |-> "NameError", tags |-> <<>>]

\* the entry appended to results['resources']
ResourceEntry(bucket_name, tagset, verdict) ==
    [resource_id |-> bucket_name, resource_type |-> "s3_bucket",
     tags |-> tagset, compliant |-> verdict.compliant,
     missing_tags |-> verdict.missing_tags,
     invalid_tags |-> verdict.invalid_tags]

\* the loop body up to save_compliance_record
check_s3_tags ==
    /\ bpc = "bucket"
    /\ bpos <= Len(buckets)
    /\ LET bucket_name == buckets[bpos].Name
           lookup == get_bucket_tagging(bucket_name)
       IN /\ s3calls' = IF lookup.issued
                        THEN Append(s3calls, <<"get_bucket_tagging", bucket_name,
                                               lookup.raised>>)
                        ELSE s3calls
          /\ tags' = lookup.tags
          /\ compliance' = check_resource_compliance(tags', required_tags)
          /\ resources' = Append(resources,
                                 ResourceEntry(bucket_name, tags', compliance'))
    /\ bpc' = "save"
    /\ UNCHANGED <<store, clock, result, executorVars, callVars, detectorVars,
                   scanVars, passVars, required_tags, tpc, buckets, bpos,
                   complianceTable>>

\* the item save_compliance_record puts (scan_date, scanned_at and ttl left out)
ComplianceItem(resource_id, resource_type, verdict) ==
    [resource_arn |-> <<resource_type, resource_id>>,
     resource_type |-> resource_type,
     compliance_status |-> IF verdict.compliant THEN "compliant"
                           ELSE "non_compliant",
     missing_tags |-> verdict.missing_tags,
     invalid_tags |-> verdict.invalid_tags]

\* table.put_item(Item=...): the item replaces the one with its key
put_compliance(table, item) ==
    [arn \in DOMAIN table \cup {item.resource_arn} |->
        IF arn = item.resource_arn THEN item ELSE table[arn]]

\* save_compliance_record(bucket_name, 's3_bucket', compliance)
save_compliance_record ==
    /\ bpc = "save"
    /\ LET bucket_name == buckets[bpos].Name
           item == ComplianceItem(bucket_name, "s3_bucket", compliance)
       IN \/ /\ complianceTable' = put_compliance(complianceTable, item)
             /\ s3calls' = Append(s3calls, <<"put_item", bucket_name, "ok">>)
             /\ bpos' = bpos + 1
             /\ bpc' = "bucket"
          \/ \E err \in ErrTexts :
             /\ s3calls' = Append(s3calls, <<"put_item", bucket_name, err>>)
             /\ UNCHANGED <<complianceTable, bpos>>
             /\ s3_except
    /\ UNCHANGED <<store, clock, result, executorVars, callVars, detectorVars,
                   tagVars, scanVars, passVars, buckets, resources>>

\* the loop is over: return results
check_s3_tags_return ==
    /\ bpc = "bucket"
    /\ bpos > Len(buckets)
    /\ bpc' = "returned"
    /\ UNCHANGED <<store, clock, result, executorVars, callVars, detectorVars,
                   tagVars, scanVars, passVars, buckets, bpos, resources,
                   s3calls, complianceTable>>

NextBuckets ==
    \/ list_buckets
    \/ check_s3_tags
    \/ save_compliance_record
    \/ check_s3_tags_return

SpecBuckets == InitBuckets /\ [][NextBuckets]_vars

\* the lookup of the tags of the bucket was made and raised
LookupFailed(bucket_name) ==
    \E i \in 1..Len(s3calls) :
        /\ s3calls[i][1] = "get_bucket_tagging"
        /\ s3calls[i][2] = bucket_name
        /\ s3calls[i][3] # "ok"

\* C29: every bucket reported is evaluated against the tags attached to it,
\* unless the lookup of its tags failed: a bucket whose tags satisfy every
\* rule and whose lookup did not fail is reported compliant.
C29_BucketCheckedAgainstOwnTags ==
    \A i \in 1..Len(resources) :
        ~LookupFailed(buckets[i].Name) =>
            /\ resources[i].resource_id = buckets[i].Name
            /\ resources[i].tags = buckets[i].TagSet
            /\ (\A r \in 1..Len(required_tags) :
                    Satisfies(buckets[i].TagSet, required_tags[r]))
                  => resources[i].compliant

\* =====================================================================
\* A pass over actions whose ids may lack the scheduled date (SpecKeys)
\* =====================================================================
\* an id that begins with a date other than the scheduled one
MisdatedId(a) == <<"2024", "01", "16", ToString(a)>>
IdsOf(a) == {WellFormedId(a), UndatedId(a), MisdatedId(a)}
KeyKinds == {<<"ec2_instance", "stop">>, <<"rds_instance", "stop">>}

InitKeys ==
    /\ dryRun \in BOOLEAN
    /\ \E kinds \in [Actions -> KeyKinds] :
       \E ids \in [Actions -> UNION {IdsOf(a) : a \in Actions}] :
          /\ \A a \in Actions : ids[a] \in IdsOf(a)
          /\ InitStore(Actions, ids, kinds)
    /\ clock = 0
    /\ result = NoResult
    /\ ExecutorIdle
    /\ CallsIdle
    /\ BucketsIdle
    /\ PassesIdle
    /\ TagsIdle
    /\ ScannerIdle
    /\ DetectorIdle

NextKeys ==
    \/ StartPass
    \/ load_cleanup_policies
    \/ get_pending_cleanup_actions
    \/ execute_cleanup_action
    \/ stop_ec2_instance
    \/ update_action_status
    \/ send_cleanup_summary

SpecKeys == InitKeys /\ [][NextKeys]_vars

\* the id begins with the scheduled date of the action
EmbedsDate(action) == ParsedDate(action.action_id) = action.scheduled_date

\* the step is a status write that returned
StatusWriteReturns == pc = "update" /\ clock' # clock

\* the records other than the one at key are as they were
OthersUntouched(key) ==
    \A k \in DOMAIN store' \ {key} : k \in DOMAIN store /\ store'[k] = store[k]

\* C21: a status write that returns sets the record at the key (action_id,
\* first three components of action_id) and touches no record at another
\* key; it changes the record of the action itself, and no other, exactly
\* when the id begins with the scheduled date of the action; the record of
\* an action whose id does not is left as it was and is pending at the end
\* of the pass.
C21_StatusWriteAddressesParsedKey ==
    [][/\ StatusWriteReturns =>
             LET action == pending[idx]
                 own == OwnKey(action)
                 key == KeyOf(action.action_id)
             IN /\ key \in DOMAIN store'
                /\ store'[key].status = StatusOf(result)
                /\ store'[key].result_message = result.message
                /\ OthersUntouched(key)
                /\ (store'[own] # store[own] /\ OthersUntouched(own))
                      <=> EmbedsDate(action)
                /\ ~EmbedsDate(action) =>
                      /\ store'[own] = store[own]
                      /\ store'[own].status = "pending"
       /\ pc' \in {"done", "raised"} =>
             \A k \in 1..Len(pending') :
                 ~EmbedsDate(pending'[k]) =>
                     store'[OwnKey(pending'[k])].status = "pending"
      ]_vars

C21_Witness ==
    /\ pc = "done"
    /\ Len(pending) = NumActions
    /\ \E k \in Listed :
          /\ ~EmbedsDate(pending[k])
          /\ Written(pending[k].action_id)
          /\ StoredItem(pending[k]).status = "pending"
          /\ KeyOf(pending[k].action_id) \in DOMAIN store
          /\ store[KeyOf(pending[k].action_id)].status = "completed"
    /\ \E k \in Listed :
          /\ EmbedsDate(pending[k])
          /\ StoredItem(pending[k]).status = "completed"

\* =====================================================================
\* Invocations of lambda_handler one after another (SpecRetry)
\* =====================================================================
\* At most MaxPasses invocations over a table of NumRetried actions. The
\* process of an invocation may be killed between any two of its steps; the
\* scheduler then invokes the handler again, as it does after a return.
\* DRY_RUN is read from the environment when the module is loaded, so an
\* invocation may run with another value than the one before it.
MaxPasses == 2
NumRetried == 1

Retried == 1..NumRetried
RetryKinds == {<<"ec2_instance", "stop">>, <<"rds_instance", "stop">>}

InitRetry ==
    /\ dryRun \in BOOLEAN
    /\ \E kinds \in [Retried -> RetryKinds] :
          InitStore(Retried, [a \in Retried |-> WellFormedId(a)], kinds)
    /\ clock = 0
    /\ result = NoResult
    /\ ExecutorIdle
    /\ CallsIdle
    /\ BucketsIdle
    /\ PassesIdle
    /\ TagsIdle
    /\ ScannerIdle
    /\ DetectorIdle

\* what is kept of an invocation that ended: how it ended, its DRY_RUN, the
\* actions it listed and the external calls it issued
PassRecord(fate) ==
    [fate |-> fate, dryRun |-> dryRun, pending |-> pending, calls |-> calls]

\* the process is killed between two steps of lambda_handler: its locals
\* are lost, the table is as the steps before left it
Kill ==
    /\ pc \notin {"idle", "done", "raised"}
    /\ pass < MaxPasses
    /\ earlier' = Append(earlier, PassRecord("killed"))
    /\ pc' = "idle"
    /\ dryRun' \in BOOLEAN
    /\ UNCHANGED <<callVars, detectorVars, bucketVars, tagVars, scanVars,
                   suspended, store, clock, result, pass, policies, pending,
                   idx, results, calls, bdmLeft, published>>

\* lambda_handler returned or raised; the scheduler invokes it again
Reinvoke ==
    /\ pc \in {"done", "raised"}
    /\ pass < MaxPasses
    /\ earlier' = Append(earlier, PassRecord(IF pc = "done" THEN "returned"
                                             ELSE "raised"))
    /\ pc' = "idle"
    /\ dryRun' \in BOOLEAN
    /\ UNCHANGED <<callVars, detectorVars, bucketVars, tagVars, scanVars,
                   suspended, store, clock, result, pass, policies, pending,
                   idx, results, calls, bdmLeft, published>>

NextRetry ==
    \/ StartPass
    \/ load_cleanup_policies
    \/ get_pending_cleanup_actions
    \/ execute_cleanup_action
    \/ stop_ec2_instance
    \/ update_action_status
    \/ send_cleanup_summary
    \/ Kill
    \/ Reinvoke

SpecRetry == InitRetry /\ [][NextRetry]_vars

\* ---------------------------------------------------------------- C22
StoredStatuses == {"pending", "completed", "failed", "skipped"}

\* the ids for which the invocation issued a mutating call and no status write
InFlight(e) ==
    {e.calls[i].action_id : i \in {j \in 1..Len(e.calls) :
                                      e.calls[j].api \in MutatingApis}}
        \ {e.calls[i].action_id : i \in {j \in 1..Len(e.calls) :
                                            e.calls[j].api = "update_item"}}

ItemOf(action_id) == store[<<action_id, ScheduledDate>>]

\* C22: the table never holds a status other than pending, completed, failed
\* and skipped. When an invocation is killed after the mutating call of an
\* action and before its status write, the action is pending until the next
\* invocation gets to it: that invocation lists it whenever its query
\* returns, and, running live, has issued the mutating call again once it
\* has processed the action.
C22_KilledActionIsRetried ==
    /\ \A key \in DOMAIN store : store[key].status \in StoredStatuses
    /\ (earlier # <<>> /\ earlier[Len(earlier)].fate = "killed") =>
          \A id \in InFlight(earlier[Len(earlier)]) :
              /\ pc \in {"idle", "load", "query"} => ItemOf(id).status = "pending"
              /\ pc \notin {"idle", "load", "query"} =>
                    \/ pending = <<>> /\ ItemOf(id).status = "pending"
                    \/ \E k \in Listed :
                          /\ pending[k].action_id = id
                          /\ ~Executed(k) => ItemOf(id).status = "pending"
                          /\ (Executed(k) /\ ~dryRun) =>
                                \E i \in CallIndexes :
                                    /\ calls[i].action_id = id
                                    /\ calls[i].api \in MutatingApis

C22_Witness ==
    /\ Len(earlier) = 1
    /\ earlier[1].fate = "killed"
    /\ pc = "done"
    /\ \E id \in InFlight(earlier[1]) :
          /\ \E i \in CallIndexes :
                /\ calls[i].action_id = id
                /\ calls[i].api \in MutatingApis
                /\ calls[i].outcome = "ok"
          /\ Written(id)
          /\ ItemOf(id).status = "completed"

\* ---------------------------------------------------------------- C25
\* the invocations so far, the running one last (between two invocations the
\* locals are those of the one that ended)
Invocations ==
    IF pc = "idle" THEN earlier ELSE Append(earlier, PassRecord("running"))

\* the calls of invocation e that are status writes for an action the
\* dispatch routes to a handler
RoutedWrites(e) ==
    {i \in 1..Len(e.calls) :
        /\ e.calls[i].api = "update_item"
        /\ Routed(e.pending[e.calls[i].position])}

\* C25: every status write a dry-run invocation issues for a dispatchable
\* action carries the status completed; once such a write has returned the
\* record is completed for good, no later invocation, dry-run or live, lists
\* the action, and none issues a call for it.
C25_DryRunCompletesForGood ==
    \A n \in 1..Len(Invocations) :
        LET e == Invocations[n] IN
        e.dryRun =>
            \A w \in RoutedWrites(e) :
                /\ e.calls[w].target = "completed"
                /\ e.calls[w].outcome = "ok" =>
                      /\ ItemOf(e.calls[w].action_id).status = "completed"
                      /\ \A m \in (n + 1)..Len(Invocations) :
                            LET later == Invocations[m] IN
                            /\ \A k \in 1..Len(later.pending) :
                                  later.pending[k].action_id # e.calls[w].action_id
                            /\ \A i \in 1..Len(later.calls) :
                                  later.calls[i].action_id # e.calls[w].action_id

C25_Witness ==
    /\ Len(earlier) = 1
    /\ earlier[1].dryRun
    /\ \E w \in RoutedWrites(earlier[1]) : earlier[1].calls[w].outcome = "ok"
    /\ ~dryRun
    /\ pc = "done"
    /\ pending = <<>>
    /\ calls = <<>>

\* =====================================================================
\* Two overlapping invocations of lambda_handler (SpecRace)
\* =====================================================================
\* Two invocations run against the same table with the same DRY_RUN. The
\* variables of the executor hold the locals of the one that takes the next
\* step, suspended holds the locals of the other; they may change places
\* between any two steps.
IdleInvocation ==
    [pass |-> 0, pc |-> "idle", policies |-> NoPolicies, pending |-> <<>>,
     idx |-> 1, result |-> NoResult, results |-> EmptyResults, calls |-> <<>>,
     bdmLeft |-> 0, published |-> FALSE]

InitRace ==
    /\ dryRun \in BOOLEAN
    /\ \E kinds \in [Retried -> RetryKinds] :
          InitStore(Retried, [a \in Retried |-> WellFormedId(a)], kinds)
    /\ clock = 0
    /\ result = NoResult
    /\ ExecutorIdle
    /\ CallsIdle
    /\ BucketsIdle
    /\ earlier = <<>>
    /\ suspended = IdleInvocation
    /\ TagsIdle
    /\ ScannerIdle
    /\ DetectorIdle

\* the other invocation takes the next step
Switch ==
    /\ suspended' =
          [pass |-> pass, pc |-> pc, policies |-> policies, pending |-> pending,
           idx |-> idx, result |-> result, results |-> results, calls |-> calls,
           bdmLeft |-> bdmLeft, published |-> published]
    /\ pass' = suspended.pass
    /\ pc' = suspended.pc
    /\ policies' = suspended.policies
    /\ pending' = suspended.pending
    /\ idx' = suspended.idx
    /\ result' = suspended.result
    /\ results' = suspended.results
    /\ calls' = suspended.calls
    /\ bdmLeft' = suspended.bdmLeft
    /\ published' = suspended.published
    /\ UNCHANGED <<callVars, detectorVars, bucketVars, tagVars, scanVars,
                   earlier, dryRun, store, clock>>

NextRace ==
    \/ StartPass
    \/ load_cleanup_policies
    \/ get_pending_cleanup_actions
    \/ execute_cleanup_action
    \/ stop_ec2_instance
    \/ update_action_status
    \/ send_cleanup_summary
    \/ Switch

SpecRace == InitRace /\ [][NextRace]_vars

\* ---------------------------------------------------------------- C23
\* the status writes of an invocation that returned, for the action
WritesOf(log, action_id) ==
    {i \in 1..Len(log) :
        /\ log[i].action_id = action_id
        /\ log[i].api = "update_item"
        /\ log[i].outcome = "ok"}

IssuedFor(log, action_id) ==
    \E i \in 1..Len(log) :
        log[i].action_id = action_id /\ log[i].api \in MutatingApis

\* C23: with two invocations overlapping, every status write that returns
\* replaces status, message and time of the record by those of the writing
\* invocation, whatever status the record held, terminal or not: the record
\* is that of the invocation that wrote last.
C23_LastWriteWins ==
    [][StatusWriteReturns =>
          LET key == KeyOf(result.action_id) IN
          /\ store'[key].status = StatusOf(result)
          /\ store'[key].result_message = result.message
          /\ store'[key].executed_at = clock'
          /\ store'[key].executed_at > store[key].executed_at
      ]_vars

C23_Witness ==
    \E a \in Retried :
        LET id == WellFormedId(a) IN
        /\ IssuedFor(calls, id)
        /\ IssuedFor(suspended.calls, id)
        /\ \E w \in WritesOf(suspended.calls, id) :
              suspended.calls[w].target = "completed"
        /\ \E w \in WritesOf(calls, id) : calls[w].target = "failed"
        /\ ItemOf(id).status = "failed"

====
